---------------------------- MODULE Spec2Model ----------------------------
(* A model of pdf-metadata-updater-and-renamer.py: the PDFRenamer pipeline *)
(* (identifier extraction, cached lookups, field reconciliation, filename  *)
(* building, routing and the batch loop) as a sequential state machine.    *)
(*                                                                         *)
(* Text is modelled at character level: a Python str is a sequence of      *)
(* one-character strings.  A character outside printable ASCII is a named  *)
(* token (for example "e-acute").  Python values whose type the code       *)
(* inspects are tagged records (PyNone, PyInt, PyStr, PyList, PyBytes); a  *)
(* Python dict is a function whose DOMAIN is the set of its keys.          *)
EXTENDS Integers, Sequences, FiniteSets, TLC

(***************************************************************************)
(* Bounds of the model                                                     *)
(***************************************************************************)
\* number of entries of the input directory
NumFiles == 2
\* number of pages of a PDF
MaxPdfPages == 1

(***************************************************************************)
(* CONFIG defaults that are numbers                                        *)
(***************************************************************************)
MAX_TITLE_LENGTH == 70
MAX_PAGES_TO_SEARCH == 15
\* FUZZY_MATCH_THRESHOLD, 0.85, as the fraction FuzzyNum / FuzzyDen
FuzzyNum == 85
FuzzyDen == 100

(***************************************************************************)
(* Python values                                                           *)
(***************************************************************************)
PyNone == [t |-> "none"]
PyInt(n) == [t |-> "int", v |-> n]
PyStr(s) == [t |-> "str", v |-> s]
PyList(xs) == [t |-> "list", v |-> xs]
PyBytes(s) == [t |-> "bytes", v |-> s]
PyDict(d) == [t |-> "dict", v |-> d]
EmptyDict == [k \in {} |-> PyNone]

IsStr(x) == x.t = "str"
IsInt(x) == x.t = "int"
IsList(x) == x.t = "list"
IsDict(x) == x.t = "dict"

\* bool(x) for the Python values used here
Truthy(x) ==
    CASE x.t = "none" -> FALSE
      [] x.t = "int" -> x.v # 0
      [] x.t = "dict" -> DOMAIN x.v # {}
      [] OTHER -> Len(x.v) > 0

\* d.get(k): the value, or None
DictGet(d, k) == IF k \in DOMAIN d THEN d[k] ELSE PyNone

\* d.update(e): every key of e is set in d, overwriting
DictUpdate(d, e) ==
    [k \in (DOMAIN d) \cup (DOMAIN e) |-> IF k \in DOMAIN e THEN e[k] ELSE d[k]]

(***************************************************************************)
(* Characters and strings                                                  *)
(***************************************************************************)
Lowers == <<"a","b","c","d","e","f","g","h","i","j","k","l","m",
            "n","o","p","q","r","s","t","u","v","w","x","y","z">>
Uppers == <<"A","B","C","D","E","F","G","H","I","J","K","L","M",
            "N","O","P","Q","R","S","T","U","V","W","X","Y","Z">>
Digits == <<"0","1","2","3","4","5","6","7","8","9">>

InSeq(c, s) == \E i \in 1..Len(s) : s[i] = c
IndexOf(c, s) == CHOOSE i \in 1..Len(s) : s[i] = c

IsLowerCh(c) == InSeq(c, Lowers)
IsUpperCh(c) == InSeq(c, Uppers)
IsDigitCh(c) == InSeq(c, Digits)
\* \w of the regular expressions
IsWordCh(c) == IsLowerCh(c) \/ IsUpperCh(c) \/ IsDigitCh(c) \/ c = "_"
\* \s, and the characters str.split() and str.strip() treat as white space
IsSpaceCh(c) == c \in {" ", "\t", "\n", "\r"}
\* [\x00-\x1f\x7f-\x9f]
IsControlCh(c) == c \in {"NUL", "\t", "\n", "\r", "DEL"}

LowerCh(c) == IF IsUpperCh(c) THEN Lowers[IndexOf(c, Uppers)] ELSE c
UpperCh(c) == IF IsLowerCh(c) THEN Uppers[IndexOf(c, Lowers)] ELSE c
ToLower(s) == [i \in 1..Len(s) |-> LowerCh(s[i])]

DigitVal(c) == IndexOf(c, Digits) - 1

\* str(n) for n >= 0
RECURSIVE IntToStr(_)
IntToStr(n) ==
    IF n < 10 THEN <<Digits[n + 1]>>
    ELSE IntToStr(n \div 10) \o <<Digits[(n % 10) + 1]>>

\* s[a:b] with 0 <= a, Python's half-open slice (0-based)
Slice(s, a, b) ==
    LET hi == IF b > Len(s) THEN Len(s) ELSE b
    IN  IF a >= hi THEN <<>> ELSE SubSeq(s, a + 1, hi)

StartsWith(s, p) == Len(p) <= Len(s) /\ SubSeq(s, 1, Len(p)) = p
EndsWith(s, p) == Len(p) <= Len(s) /\ SubSeq(s, Len(s) - Len(p) + 1, Len(s)) = p

\* s.lstrip(chars), s.rstrip(chars), s.strip(chars) with chars a set
LStripSet(s, cs) ==
    LET kept == {i \in 1..Len(s) : s[i] \notin cs}
    IN  IF kept = {} THEN <<>>
        ELSE SubSeq(s, CHOOSE i \in kept : \A j \in kept : i <= j, Len(s))
RStripSet(s, cs) ==
    LET kept == {i \in 1..Len(s) : s[i] \notin cs}
    IN  IF kept = {} THEN <<>>
        ELSE SubSeq(s, 1, CHOOSE i \in kept : \A j \in kept : i >= j)
StripSet(s, cs) == RStripSet(LStripSet(s, cs), cs)
SpaceChars == {" ", "\t", "\n", "\r"}
Strip(s) == StripSet(s, SpaceChars)

\* s.split(): the maximal runs of non-space characters
\* the length of the longest prefix of t without a space
FirstWordLen(t) ==
    IF \E i \in 1..Len(t) : IsSpaceCh(t[i])
    THEN (CHOOSE i \in 1..Len(t) :
             IsSpaceCh(t[i]) /\ \A j \in 1..(i - 1) : ~IsSpaceCh(t[j])) - 1
    ELSE Len(t)

RECURSIVE SplitWords(_)
SplitAt(t, n) == <<SubSeq(t, 1, n)>> \o SplitWords(SubSeq(t, n + 1, Len(t)))
SplitStripped(t) == IF t = <<>> THEN <<>> ELSE SplitAt(t, FirstWordLen(t))
SplitWords(s) == SplitStripped(LStripSet(s, SpaceChars))

\* ' '.join(words)
RECURSIVE JoinWords(_)
JoinWords(ws) ==
    IF ws = <<>> THEN <<>>
    ELSE IF Len(ws) = 1 THEN ws[1]
    ELSE ws[1] \o <<" ">> \o JoinWords(Tail(ws))

\* re.sub(r'\s+', ' ', s)
\* a run of spaces keeps its first place, as one space
CollapseSpaces(s) ==
    LET FirstOfRun(i) == i = 1 \/ ~IsSpaceCh(s[i - 1])
        runs == [i \in 1..Len(s) |->
                    IF ~IsSpaceCh(s[i]) THEN <<s[i]>>
                    ELSE IF FirstOfRun(i) THEN <<" ">> ELSE <<>>]
        Kept(c) == c # <<>>
        kept == SelectSeq(runs, Kept)
    IN  [i \in 1..Len(kept) |-> kept[i][1]]

\* s.find(p): the 0-based index of the first occurrence, or -1
Find(s, p) ==
    LET hits == {i \in 1..(Len(s) - Len(p) + 1) : SubSeq(s, i, i + Len(p) - 1) = p}
    IN  IF hits = {} THEN -1
        ELSE (CHOOSE i \in hits : \A j \in hits : i <= j) - 1

\* s.rfind(' ', 0, end): the 0-based index of the last space of s[0:end], or -1
RFindSpace(s, end) ==
    LET hi == IF end > Len(s) THEN Len(s) ELSE end
        hits == {i \in 1..hi : s[i] = " "}
    IN  IF hits = {} THEN -1
        ELSE (CHOOSE i \in hits : \A j \in hits : i >= j) - 1

(***************************************************************************)
(* String literals of the program                                          *)
(***************************************************************************)
UnknownAuthor == <<"U","n","k","n","o","w","n","A","u","t","h","o","r">>
UnknownTitle == <<"U","n","k","n","o","w","n","T","i","t","l","e">>
UnknownYear == <<"U","n","k","n","o","w","n","Y","e","a","r">>
UnknownFile == <<"U","n","k","n","o","w","n","F","i","l","e">>
NoneStr == <<"N","o","n","e">>
DotPdf == <<".","p","d","f">>
Sep == <<" ","-"," ">>
\* CONFIG['COLON_REPLACEMENT']
COLON_REPLACEMENT == <<" ","-">>

(***************************************************************************)
(* Text Normalizer                                                         *)
(***************************************************************************)
\* What NFD decomposition, the removal of combining marks (category Mn), the
\* char_map and the final ASCII filter make of one non-ASCII character.  A
\* character that is not listed is ASCII and is kept.
TranslitTable ==
    [c \in {"e-acute", "u-umlaut", "combining-acute", "r-caron", "l-stroke",
            "sharp-s", "o-slash", "ae-lig", "cyr-zhe", "cyr-a", "han-zhong",
            "nbsp", "c1-control"} |->
        CASE c = "e-acute" -> <<"e">>
          [] c = "u-umlaut" -> <<"u">>
          [] c = "combining-acute" -> <<>>
          [] c = "r-caron" -> <<"r">>
          [] c = "l-stroke" -> <<"l">>
          [] c = "sharp-s" -> <<"s","s">>
          [] c = "o-slash" -> <<"o">>
          [] c = "ae-lig" -> <<"a","e">>
          [] c = "cyr-zhe" -> <<"z","h">>
          [] c = "cyr-a" -> <<"a">>
          [] OTHER -> <<>>]

RECURSIVE transliterate_to_latin(_)
transliterate_to_latin(text) ==
    IF text = <<>> THEN text
    ELSE IF Len(text) = 1
    THEN (IF text[1] \in DOMAIN TranslitTable THEN TranslitTable[text[1]] ELSE text)
    ELSE transliterate_to_latin(SubSeq(text, 1, Len(text) \div 2))
            \o transliterate_to_latin(SubSeq(text, Len(text) \div 2 + 1, Len(text)))

\* s.replace(':', repl)
RECURSIVE ReplaceColon(_, _)
ReplaceColon(s, repl) ==
    IF s = <<>> THEN <<>>
    ELSE IF Len(s) = 1 THEN (IF s[1] = ":" THEN repl ELSE s)
    ELSE ReplaceColon(SubSeq(s, 1, Len(s) \div 2), repl)
            \o ReplaceColon(SubSeq(s, Len(s) \div 2 + 1, Len(s)), repl)

\* the characters of the class [<>"/\\|?*]
ProblemChars == {"<", ">", "\"", "/", "\\", "|", "?", "*"}

NotControl(c) == ~IsControlCh(c)

BlankProblemChars(s) == [i \in 1..Len(s) |-> IF s[i] \in ProblemChars THEN " " ELSE s[i]]
OrUnknownFile(s) == IF s # <<>> THEN s ELSE UnknownFile

\* sanitize_filename under a given self.config['COLON_REPLACEMENT']
sanitize_filename_with(colon_replacement, filename) ==
    OrUnknownFile(
        StripSet(
            CollapseSpaces(
                SelectSeq(
                    BlankProblemChars(
                        ReplaceColon(transliterate_to_latin(filename), colon_replacement)),
                    NotControl)),
            {".", " "}))

\* sanitize_filename under the default configuration
sanitize_filename(filename) == sanitize_filename_with(COLON_REPLACEMENT, filename)

\* str.isupper(): there is a cased character and no lowercase one
IsUpperStr(s) ==
    /\ \E i \in 1..Len(s) : IsUpperCh(s[i])
    /\ \A i \in 1..Len(s) : ~IsLowerCh(s[i])

IsCased(c) == IsUpperCh(c) \/ IsLowerCh(c)

\* str.title(): a cased character is upper after an uncased one, else lower
TitleCase(s) ==
    [i \in 1..Len(s) |->
        IF i > 1 /\ IsCased(s[i - 1]) THEN LowerCh(s[i]) ELSE UpperCh(s[i])]

SmallWords == <<
    <<"o","f">>,
    <<"t","h","e">>,
    <<"a","n","d">>,
    <<"i","n">>,
    <<"o","n">>,
    <<"a">>,
    <<"a","n">>,
    <<"t","o">>,
    <<"f","o","r">>,
    <<"w","i","t","h">>,
    <<"a","t">>,
    <<"b","y">>,
    <<"f","r","o","m">>>>

\* re.sub(rf'\b{word.title()}\b', word, s) for every small word: a maximal run
\* of word characters that is a small word in title case is put in lower case
IsSmallTitled(w) == \E k \in 1..Len(SmallWords) : w = TitleCase(SmallWords[k])

\* the length of the longest prefix of s made of word characters
WordRunLen(s) ==
    IF \E i \in 1..Len(s) : ~IsWordCh(s[i])
    THEN (CHOOSE i \in 1..Len(s) :
             ~IsWordCh(s[i]) /\ \A j \in 1..(i - 1) : IsWordCh(s[j])) - 1
    ELSE Len(s)
LowerIfSmall(w) == IF IsSmallTitled(w) THEN ToLower(w) ELSE w

RECURSIVE LowerSmallWords(_)
LowerFirstRun(s, n) ==
    LowerIfSmall(SubSeq(s, 1, n)) \o LowerSmallWords(SubSeq(s, n + 1, Len(s)))
LowerSmallWords(s) ==
    IF s = <<>> THEN <<>>
    ELSE IF ~IsWordCh(Head(s)) THEN <<Head(s)>> \o LowerSmallWords(Tail(s))
    ELSE LowerFirstRun(s, WordRunLen(s))

\* result[0].upper() + result[1:] when the first character is lowercase
UpperFirst(result) ==
    IF result # <<>> /\ IsLowerCh(result[1])
    THEN <<UpperCh(result[1])>> \o Tail(result)
    ELSE result

fix_caps(text) ==
    IF text = <<>> THEN text
    ELSE IF IsUpperStr(text) THEN UpperFirst(LowerSmallWords(TitleCase(text)))
    ELSE text

prefixes_to_remove == <<
    <<"D","r",".">>,
    <<"P","r","o","f",".">>,
    <<"P","r","o","f","e","s","s","o","r">>,
    <<"M","r",".">>,
    <<"M","s",".">>,
    <<"M","r","s",".">>>>
suffixes_to_remove == <<
    <<"P","h",".","D",".">>,
    <<"P","h","D">>,
    <<"M",".","D",".">>,
    <<"M","D">>,
    <<"J","r",".">>,
    <<"S","r",".">>,
    <<"I","I","I">>,
    <<"I","I">>>>

RECURSIVE RemovePrefixes(_, _)
RemovePrefixes(s, ps) ==
    IF ps = <<>> THEN s
    ELSE RemovePrefixes(
            IF StartsWith(s, Head(ps))
            THEN Strip(SubSeq(s, Len(Head(ps)) + 1, Len(s))) ELSE s,
            Tail(ps))

RECURSIVE RemoveSuffixes(_, _)
RemoveSuffixes(s, ps) ==
    IF ps = <<>> THEN s
    ELSE RemoveSuffixes(
            IF EndsWith(s, Head(ps))
            THEN Strip(SubSeq(s, 1, Len(s) - Len(Head(ps)))) ELSE s,
            Tail(ps))

\* name is a str
\* "Last, First" gives Last; otherwise the last word is the surname
PickSurname(cleaned, name_parts) ==
    IF InSeq(",", cleaned)
    THEN Strip(SubSeq(cleaned, 1, IndexOf(",", cleaned) - 1))
    ELSE IF Len(name_parts) > 1 THEN name_parts[Len(name_parts)]
    ELSE IF Len(name_parts) = 1 THEN name_parts[1]
    ELSE UnknownAuthor
SurnameOf(cleaned) == PickSurname(cleaned, SplitWords(cleaned))

clean_author_name(name) ==
    IF name = <<>> THEN UnknownAuthor
    ELSE SurnameOf(RemoveSuffixes(
                       RemovePrefixes(fix_caps(Strip(name)), prefixes_to_remove),
                       suffixes_to_remove))

(***************************************************************************)
(* Field extraction from records                                           *)
(***************************************************************************)
\* str(x) for x None, an int or a str
PyToStr(x) ==
    CASE x.t = "none" -> NoneStr
      [] x.t = "int" -> IntToStr(x.v)
      [] OTHER -> x.v

\* A function that can raise returns [raised |-> TRUE] or
\* [raised |-> FALSE, v |-> value].
Raise == [raised |-> TRUE]
Ret(x) == [raised |-> FALSE, v |-> x]

\* authors_data is the value of the record's 'author' key
extract_author_from_crossref(authors_data) ==
    IF ~Truthy(authors_data) THEN Ret(PyStr(UnknownAuthor))
    ELSE IF ~IsList(authors_data) \/ ~IsDict(authors_data.v[1]) THEN Raise
    ELSE LET first_author == authors_data.v[1].v
             family == IF "family" \in DOMAIN first_author
                       THEN first_author["family"] ELSE PyStr(<<>>)
             given == IF "given" \in DOMAIN first_author
                      THEN first_author["given"] ELSE PyStr(<<>>)
         IN  IF Truthy(family) THEN Ret(family)
             ELSE IF Truthy(given) THEN Ret(given)
             ELSE Ret(PyStr(UnknownAuthor))

\* authors_data is a non-empty list whose first element is a dict
extract_author_from_semantic_scholar(authors_data) ==
    IF ~Truthy(authors_data) THEN Ret(PyStr(UnknownAuthor))
    ELSE LET first_author == authors_data.v[1]
             name == IF IsDict(first_author)
                     THEN (IF "name" \in DOMAIN first_author.v
                           THEN first_author.v["name"] ELSE PyStr(<<>>))
                     ELSE PyStr(PyToStr(first_author))
         IN  IF ~Truthy(name) THEN Ret(PyStr(UnknownAuthor))
             ELSE IF ~IsStr(name) THEN Raise
             ELSE Ret(PyStr(clean_author_name(name.v)))

extract_author_from_arxiv(authors_data) ==
    IF ~Truthy(authors_data) THEN Ret(PyStr(UnknownAuthor))
    ELSE IF ~IsList(authors_data) THEN Raise
    ELSE LET first_author == authors_data.v[1]
         IN  IF ~Truthy(first_author) THEN Ret(PyStr(UnknownAuthor))
             ELSE IF ~IsStr(first_author) THEN Raise
             ELSE Ret(PyStr(clean_author_name(first_author.v)))

date_fields == <<"published-print", "published-online", "created", "deposited">>

\* The year of one date field of date_info: "raise", "next" (try the next
\* field) or the value returned.
CrossrefFieldYear(date_info, field) ==
    IF field \notin DOMAIN date_info THEN [k |-> "next"]
    ELSE IF ~IsDict(date_info[field]) THEN [k |-> "raise"]
    ELSE LET date_parts == IF "date-parts" \in DOMAIN date_info[field].v
                           THEN date_info[field].v["date-parts"] ELSE PyList(<<>>)
         IN  IF ~Truthy(date_parts) THEN [k |-> "next"]
             ELSE IF ~IsList(date_parts) THEN [k |-> "raise"]
             ELSE IF ~Truthy(date_parts.v[1]) THEN [k |-> "next"]
             ELSE IF ~IsList(date_parts.v[1]) THEN [k |-> "raise"]
             ELSE LET year == date_parts.v[1].v[1]
                  IN  IF Truthy(year) /\ IsInt(year) /\ 1000 <= year.v /\ year.v <= 9999
                      THEN [k |-> "ret", v |-> PyStr(IntToStr(year.v))]
                      ELSE [k |-> "next"]

RECURSIVE CrossrefYearFrom(_, _)
CrossrefYearFrom(date_info, fields) ==
    IF fields = <<>> THEN Ret(PyNone)
    ELSE LET r == CrossrefFieldYear(date_info, Head(fields))
         IN  IF r.k = "raise" THEN Raise
             ELSE IF r.k = "ret" THEN Ret(r.v)
             ELSE CrossrefYearFrom(date_info, Tail(fields))

\* date_info is a dict; returns a str or None
extract_year_from_crossref(date_info) == CrossrefYearFrom(date_info, date_fields)

\* the 1-based places where r'\b(19|20)\d{2}\b' matches in s
YearMatches(s) ==
    {i \in 1..(Len(s) - 3) :
        /\ SubSeq(s, i, i + 1) \in {<<"1","9">>, <<"2","0">>}
        /\ IsDigitCh(s[i + 2]) /\ IsDigitCh(s[i + 3])
        /\ (i = 1 \/ ~IsWordCh(s[i - 1]))
        /\ (i + 3 = Len(s) \/ ~IsWordCh(s[i + 4]))}

\* re.search(r'\b(19|20)\d{2}\b', s): the first match as a str, or None
SearchYear(s) ==
    IF YearMatches(s) = {} THEN PyNone
    ELSE LET i == CHOOSE i \in YearMatches(s) : \A j \in YearMatches(s) : i <= j
         IN  PyStr(SubSeq(s, i, i + 3))

\* date_str is any Python value
extract_year_from_date_string(date_str) ==
    IF ~Truthy(date_str) THEN Ret(PyNone)
    ELSE IF ~IsStr(date_str) THEN Raise
    ELSE Ret(SearchYear(date_str.v))

\* re.match(r'^[a-z]+-\d{4}-\d{6}', s)
AllDigits(s) == \A i \in 1..Len(s) : IsDigitCh(s[i])
LooksLikeArticleId(s) ==
    \E k \in 1..Len(s) :
        /\ \A i \in 1..k : IsLowerCh(s[i])
        /\ Len(s) >= k + 12
        /\ s[k + 1] = "-" /\ AllDigits(SubSeq(s, k + 2, k + 5))
        /\ s[k + 6] = "-" /\ AllDigits(SubSeq(s, k + 7, k + 12))

title_prefixes == <<
    <<"m","i","c","r","o","s","o","f","t"," ","w","o","r","d"," ","-"," ">>,
    <<"a","d","o","b","e"," ","p","d","f"," ","-"," ">>>>
title_phrases == <<
    <<"E","d","i","t","e","d"," ","b","y">>,
    <<"R","e","v","i","e","w","e","d"," ","b","y">>,
    <<"C","o","p","y","r","i","g","h","t">>,
    <<"d","o","i">>,
    <<"D","O","I">>>>

RECURSIVE CutAtPhrases(_, _)
CutAtPhrases(title, phrases) ==
    IF phrases = <<>> THEN title
    ELSE LET idx == Find(ToLower(title), ToLower(Head(phrases)))
         IN  CutAtPhrases(IF idx > 0 THEN Strip(Slice(title, 0, idx)) ELSE title,
                          Tail(phrases))

\* raw_title is a str
\* re.sub(r'^(Microsoft Word - |Adobe PDF - )', '', title, flags=re.IGNORECASE)
StripTitlePrefix(title) ==
    IF \E k \in 1..Len(title_prefixes) : StartsWith(ToLower(title), title_prefixes[k])
    THEN LET k == CHOOSE k \in 1..Len(title_prefixes) :
                     StartsWith(ToLower(title), title_prefixes[k])
         IN  SubSeq(title, Len(title_prefixes[k]) + 1, Len(title))
    ELSE title
StripPdfSuffix(title) ==
    IF EndsWith(ToLower(title), DotPdf) THEN SubSeq(title, 1, Len(title) - 4) ELSE title
OrUnknownTitle(title) == IF title # <<>> THEN title ELSE UnknownTitle

improved_title_extraction(raw_title) ==
    IF raw_title = <<>> THEN UnknownTitle
    ELSE IF LooksLikeArticleId(ToLower(raw_title)) THEN UnknownTitle
    ELSE OrUnknownTitle(
             Strip(CollapseSpaces(
                 CutAtPhrases(StripPdfSuffix(StripTitlePrefix(fix_caps(Strip(raw_title)))),
                              title_phrases))))

(***************************************************************************)
(* Filename Builder                                                        *)
(***************************************************************************)
stop_words == <<
    <<"a">>,
    <<"a","n">>,
    <<"t","h","e">>,
    <<"o","f">>,
    <<"i","n">>,
    <<"o","n">>,
    <<"a","t">>,
    <<"t","o">>,
    <<"f","o","r">>>>

\* the title segment of create_filename, under a given
\* self.config['MAX_TITLE_LENGTH'] and self.config['COLON_REPLACEMENT']
CutTitleAt(max_title_length, title, truncate_pos) ==
    IF 10 * truncate_pos > 7 * max_title_length
    THEN Slice(title, 0, truncate_pos)
    ELSE Slice(title, 0, max_title_length)
CutTitle(title, truncate_pos) == CutTitleAt(MAX_TITLE_LENGTH, title, truncate_pos)
DropPartialWord(title, words) ==
    IF /\ words # <<>>
       /\ Len(words[Len(words)]) > 2
       /\ IsLowerCh(words[Len(words)][Len(words[Len(words)])])
       /\ ~InSeq(words[Len(words)], stop_words)
    THEN JoinWords(SubSeq(words, 1, Len(words) - 1))
    ELSE title
TidyCut(title) == DropPartialWord(title, SplitWords(title))
TruncateAt(max_title_length, title) ==
    IF Len(title) > max_title_length
    THEN TidyCut(RStripSet(RStripSet(CutTitleAt(max_title_length, title,
                                                RFindSpace(title, max_title_length)),
                                     SpaceChars),
                           {",", ";", ":", "-"} \cup SpaceChars))
    ELSE title
Truncate(title) == TruncateAt(MAX_TITLE_LENGTH, title)
\* title_clean before the truncation
TitleClean(colon_replacement, title) ==
    RStripSet(sanitize_filename_with(colon_replacement, title),
              {".", ",", ";", ":", "!", "?"})
TitleSegmentWith(max_title_length, colon_replacement, title) ==
    TruncateAt(max_title_length, TitleClean(colon_replacement, title))
TitleSegment(title) == TitleSegmentWith(MAX_TITLE_LENGTH, COLON_REPLACEMENT, title)

\* author, year and title are strs
create_filename_with(max_title_length, colon_replacement, author, year, title) ==
    sanitize_filename_with(colon_replacement, author) \o Sep
        \o sanitize_filename_with(colon_replacement, year) \o Sep
        \o TitleSegmentWith(max_title_length, colon_replacement, title) \o DotPdf

\* create_filename under the default configuration
create_filename(author, year, title) ==
    create_filename_with(MAX_TITLE_LENGTH, COLON_REPLACEMENT, author, year, title)

(***************************************************************************)
(* Paths and collision resolution                                          *)
(***************************************************************************)
\* A path is [folder, name]: folder "dir" is the input directory, "review"
\* its PROBLEM_FOLDER.  A file system is a function from the paths that
\* exist to the identity of the file stored there.
Path(folder, name) == [folder |-> folder, name |-> name]
NoPath == Path("none", <<>>)

\* os.path.splitext of a name: the extension starts at the last dot, unless
\* only dots precede it
ExtStart(name) ==
    LET dots == {i \in 2..Len(name) :
                    name[i] = "." /\ \E j \in 1..(i - 1) : name[j] # "."}
    IN  IF dots = {} THEN Len(name) + 1
        ELSE CHOOSE i \in dots : \A j \in dots : i >= j

\* f"{base_path} ({counter}){ext}"
Numbered(name, counter) ==
    SubSeq(name, 1, ExtStart(name) - 1) \o <<" ", "(">> \o IntToStr(counter) \o <<")">>
        \o SubSeq(name, ExtStart(name), Len(name))

\* a faulty variant of handle_duplicate_filenames: the target is taken as it
\* is, whatever exists
handle_duplicate_filenames_TakesTarget(exists, target_path, original_path) ==
    target_path

\* a faulty variant of handle_duplicate_filenames: a numbered path that is
\* the file's own path is passed over like any other path that exists
handle_duplicate_filenames_PastOwnPath(exists, target_path, original_path) ==
    IF target_path = original_path THEN target_path
    ELSE IF target_path \notin exists THEN target_path
    ELSE LET Free(n) == Path(target_path.folder, Numbered(target_path.name, n))
                            \notin exists
             counter == CHOOSE n \in 1..(Cardinality(exists) + 1) :
                            Free(n) /\ \A m \in 1..(n - 1) : ~Free(m)
         IN  Path(target_path.folder, Numbered(target_path.name, counter))

\* a faulty variant of handle_duplicate_filenames: a target that exists is
\* numbered (1), whatever exists under that name
handle_duplicate_filenames_FirstNumber(exists, target_path, original_path) ==
    IF target_path = original_path THEN target_path
    ELSE IF target_path \notin exists THEN target_path
    ELSE Path(target_path.folder, Numbered(target_path.name, 1))

\* exists is the set of the paths that exist
handle_duplicate_filenames(exists, target_path, original_path) ==
    IF target_path = original_path THEN target_path
    ELSE IF target_path \notin exists THEN target_path
    ELSE LET Free(n) == LET new_path == Path(target_path.folder,
                                             Numbered(target_path.name, n))
                        IN  new_path \notin exists \/ new_path = original_path
             counter == CHOOSE n \in 1..(Cardinality(exists) + 1) :
                            Free(n) /\ \A m \in 1..(n - 1) : ~Free(m)
         IN  Path(target_path.folder, Numbered(target_path.name, counter))

\* shutil.move / os.rename of src to dst: dst then holds the file of src
MoveFile(files, src, dst) ==
    [p \in ((DOMAIN files) \ {src}) \cup {dst} |->
        IF p = dst THEN files[src] ELSE files[p]]

\* a faulty variant of move_to_needs_attention: a failed shutil.move is not
\* raised
move_to_needs_attention_Silent(files, made, file_path, how) ==
    LET new_path == handle_duplicate_filenames(DOMAIN files,
                        Path("review", file_path.name), file_path)
    IN  IF how = "makedirs_fails"
        THEN [raised |-> TRUE, fs |-> files, dirs |-> made, new_path |-> NoPath]
        ELSE IF how = "move_fails" \/ file_path \notin DOMAIN files
        THEN [raised |-> FALSE, fs |-> files, dirs |-> made \cup {"review"},
              new_path |-> new_path]
        ELSE [raised |-> FALSE, fs |-> MoveFile(files, file_path, new_path),
              dirs |-> made \cup {"review"}, new_path |-> new_path]

\* move_to_needs_attention(file_path, problem_folder, reason); how is what
\* the file system lets happen: "ok", "makedirs_fails" or "move_fails".
\* Returns what was raised, the file system, the folders made, and new_path.
move_to_needs_attention(files, made, file_path, how) ==
    LET new_path == handle_duplicate_filenames(DOMAIN files,
                        Path("review", file_path.name), file_path)
    IN  IF how = "makedirs_fails"
        THEN [raised |-> TRUE, fs |-> files, dirs |-> made, new_path |-> NoPath]
        ELSE IF how = "move_fails" \/ file_path \notin DOMAIN files
        THEN [raised |-> TRUE, fs |-> files, dirs |-> made \cup {"review"},
              new_path |-> NoPath]
        ELSE [raised |-> FALSE, fs |-> MoveFile(files, file_path, new_path),
              dirs |-> made \cup {"review"}, new_path |-> new_path]

(***************************************************************************)
(* Identifier extraction                                                   *)
(***************************************************************************)
\* A page is [raises, text, found]: whether page.extract_text() raises,
\* whether it yields text, and what extract_doi_from_text,
\* extract_arxiv_from_text, extract_isbn_from_text and
\* extract_title_from_text find in that text (a dict from "doi", "arxiv",
\* "isbn", "title" to the str found).
IdKinds == {"doi", "arxiv", "isbn"}

\* a faulty variant of ScanPage: a key is set from every page that has a match
ScanPage_TakesEveryMatch(found, page_num, page, use_arxiv) ==
    LET new == {k \in {"doi", "arxiv", "isbn", "title"} :
                   /\ k \in DOMAIN page.found
                   /\ (k = "arxiv" => use_arxiv)}
    IN  [k \in (DOMAIN found) \cup new |->
            IF k \in new THEN page.found[k] ELSE found[k]]

\* the identifiers after the body of the loop for one page
ScanPage(found, page_num, page, use_arxiv) ==
    LET Take(k) == k \in DOMAIN page.found /\ k \notin DOMAIN found
        new == {k \in {"doi", "arxiv", "isbn", "title"} :
                   /\ Take(k)
                   /\ (k = "arxiv" => use_arxiv)
                   /\ (k = "title" => page_num = 0)}
    IN  [k \in (DOMAIN found) \cup new |->
            IF k \in DOMAIN found THEN found[k] ELSE page.found[k]]

RECURSIVE ScanFrom(_, _, _, _, _)
ScanFrom(found, page_num, pages_to_check, pages, use_arxiv) ==
    IF page_num >= pages_to_check THEN found
    ELSE LET page == pages[page_num + 1]
             after == ScanPage(found, page_num, page, use_arxiv)
         IN  IF page.raises \/ ~page.text
             THEN ScanFrom(found, page_num + 1, pages_to_check, pages, use_arxiv)
             ELSE IF (DOMAIN after) \cap IdKinds # {} THEN after
             ELSE ScanFrom(after, page_num + 1, pages_to_check, pages, use_arxiv)

\* pages is reader.pages
extract_ids_from_pdf(pages, max_pages, use_arxiv) ==
    LET pages_to_check == IF max_pages < Len(pages) THEN max_pages ELSE Len(pages)
    IN  ScanFrom(EmptyDict, 0, pages_to_check, pages, use_arxiv)

(***************************************************************************)
(* difflib.SequenceMatcher(None, a, b).ratio()                             *)
(***************************************************************************)
\* the length of the common block of a and b that starts at a[i], b[j] and
\* stays inside a[..ahi], b[..bhi] (1-based, inclusive)
RECURSIVE BlockLen(_, _, _, _, _, _)
BlockLen(a, i, ahi, b, j, bhi) ==
    IF i > ahi \/ j > bhi \/ a[i] # b[j] THEN 0
    ELSE 1 + BlockLen(a, i + 1, ahi, b, j + 1, bhi)

\* find_longest_match: the longest block, the earliest in a, then in b
LongestMatch(a, alo, ahi, b, blo, bhi) ==
    LET cands == {<<i, j>> \in (alo..ahi) \X (blo..bhi) : a[i] = b[j]}
        Better(x, y) ==
            LET kx == BlockLen(a, x[1], ahi, b, x[2], bhi)
                ky == BlockLen(a, y[1], ahi, b, y[2], bhi)
            IN  \/ kx > ky
                \/ kx = ky /\ x[1] < y[1]
                \/ kx = ky /\ x[1] = y[1] /\ x[2] <= y[2]
    IN  IF cands = {} THEN <<alo, blo, 0>>
        ELSE LET best == CHOOSE x \in cands : \A y \in cands : Better(x, y)
             IN  <<best[1], best[2], BlockLen(a, best[1], ahi, b, best[2], bhi)>>

\* the total size of the matching blocks
RECURSIVE MatchedChars(_, _, _, _, _, _)
MatchedChars(a, alo, ahi, b, blo, bhi) ==
    IF alo > ahi \/ blo > bhi THEN 0
    ELSE LET m == LongestMatch(a, alo, ahi, b, blo, bhi)
         IN  IF m[3] = 0 THEN 0
             ELSE m[3] + MatchedChars(a, alo, m[1] - 1, b, blo, m[2] - 1)
                       + MatchedChars(a, m[1] + m[3], ahi, b, m[2] + m[3], bhi)

\* a faulty variant of RatioAtLeast: ratio() > num / den
RatioAtLeast_Strict(a, b, num, den) ==
    IF Len(a) + Len(b) = 0 THEN num < den
    ELSE 2 * MatchedChars(a, 1, Len(a), b, 1, Len(b)) * den > num * (Len(a) + Len(b))

\* ratio() >= num / den, with ratio() = 2 * matches / (len(a) + len(b)),
\* and 1.0 when both are empty
RatioAtLeast(a, b, num, den) ==
    IF Len(a) + Len(b) = 0 THEN num <= den
    ELSE 2 * MatchedChars(a, 1, Len(a), b, 1, Len(b)) * den >= num * (Len(a) + Len(b))

(***************************************************************************)
(* Metadata Source Adapters                                                *)
(***************************************************************************)
\* A response is [kind]: "timeout", "transport" (any other exception of
\* requests.get), "status" (a status other than 200), "badbody" (status 200
\* and a body the parser rejects) or "ok" (status 200, with the parsed body).
\* A cache key is [src, id]; src stands for the prefix of the cache_key
\* string: "crossref", "s2_doi", "s2_arxiv", "s2_title", "arxiv",
\* "openlibrary".
CacheKey(src, id) == [src |-> src, id |-> id]
NoKey == CacheKey("none", <<>>)
FailureKinds == {"timeout", "transport", "status", "badbody"}
EmptyRecord == PyDict(EmptyDict)

\* An adapter returns [raised, v, cache, net, alias]: whether it raised, the
\* record returned, the cache afterwards, whether a request was sent, and
\* whether the record returned is the very object held in the cache.
CacheHit(cache, key) ==
    [raised |-> FALSE, v |-> cache[key], cache |-> cache, net |-> FALSE, alias |-> TRUE]
Stored(cache, key, result) ==
    [raised |-> FALSE, v |-> result, net |-> TRUE, alias |-> TRUE,
     cache |-> [k \in (DOMAIN cache) \cup {key} |-> IF k = key THEN result ELSE cache[k]]]
\* faulty variants of StoredEmpty: the failure is not cached; the failure is
\* raised to the caller
StoredEmpty_NotCached(cache, key) ==
    [raised |-> FALSE, v |-> PyDict(EmptyDict), net |-> TRUE, alias |-> FALSE,
     cache |-> cache]
StoredEmpty_Raising(cache, key) ==
    [raised |-> TRUE, v |-> PyDict(EmptyDict), net |-> TRUE, alias |-> FALSE,
     cache |-> cache]

\* self.api_cache[cache_key] = {}; return {}
StoredEmpty(cache, key) ==
    [raised |-> FALSE, v |-> EmptyRecord, net |-> TRUE, alias |-> FALSE,
     cache |-> [k \in (DOMAIN cache) \cup {key} |-> IF k = key THEN EmptyRecord ELSE cache[k]]]
Disabled(cache) ==
    [raised |-> FALSE, v |-> EmptyRecord, cache |-> cache, net |-> FALSE, alias |-> FALSE]

query_crossref(cache, doi, resp) ==
    LET cache_key == CacheKey("crossref", doi)
    IN  IF cache_key \in DOMAIN cache THEN CacheHit(cache, cache_key)
        ELSE IF resp.kind = "ok" /\ IsDict(resp.body)
        THEN Stored(cache, cache_key,
                    IF "message" \in DOMAIN resp.body.v
                    THEN resp.body.v["message"] ELSE EmptyRecord)
        ELSE StoredEmpty(cache, cache_key)

query_semantic_scholar(cache, use_s2, identifier, id_type, resp) ==
    LET cache_key == CacheKey(id_type, identifier)
    IN  IF ~use_s2 THEN Disabled(cache)
        ELSE IF cache_key \in DOMAIN cache THEN CacheHit(cache, cache_key)
        ELSE IF resp.kind # "ok" THEN StoredEmpty(cache, cache_key)
        ELSE IF id_type # "s2_title" THEN Stored(cache, cache_key, resp.body)
        ELSE IF /\ IsDict(resp.body)
                /\ "data" \in DOMAIN resp.body.v
                /\ Truthy(resp.body.v["data"])
                /\ IsList(resp.body.v["data"])
                /\ IsDict(resp.body.v["data"].v[1])
                /\ "title" \in DOMAIN resp.body.v["data"].v[1].v =>
                       IsStr(resp.body.v["data"].v[1].v["title"])
        THEN LET result == resp.body.v["data"].v[1]
                 title == IF "title" \in DOMAIN result.v
                          THEN result.v["title"].v ELSE <<>>
             IN  IF RatioAtLeast(ToLower(identifier), ToLower(title), FuzzyNum, FuzzyDen)
                 THEN Stored(cache, cache_key, result)
                 ELSE StoredEmpty(cache, cache_key)
        ELSE StoredEmpty(cache, cache_key)

\* resp.body is the result built from the first atom:entry of the feed, or
\* None when the feed has no entry
query_arxiv(cache, use_arxiv, arxiv_id, resp) ==
    LET cache_key == CacheKey("arxiv", arxiv_id)
    IN  IF ~use_arxiv THEN Disabled(cache)
        ELSE IF cache_key \in DOMAIN cache THEN CacheHit(cache, cache_key)
        ELSE IF resp.kind = "ok" /\ IsDict(resp.body)
        THEN Stored(cache, cache_key, resp.body)
        ELSE StoredEmpty(cache, cache_key)

\* resp.body is data.get(f"ISBN:{isbn}", {})
query_openlibrary(cache, isbn, resp) ==
    LET cache_key == CacheKey("openlibrary", isbn)
    IN  IF cache_key \in DOMAIN cache THEN CacheHit(cache, cache_key)
        ELSE IF resp.kind = "ok" /\ Truthy(resp.body)
        THEN Stored(cache, cache_key, resp.body)
        ELSE StoredEmpty(cache, cache_key)

(***************************************************************************)
(* Field Reconciler: lines 890-949 of process_single_pdf                   *)
(***************************************************************************)
\* enriched is enriched_data (a dict, or None), meta the PDF's metadata
\* (a dict), found the identifiers extracted (a dict)
ResolveAuthor(enriched, meta) ==
    IF Truthy(enriched)
    THEN IF "author" \in DOMAIN enriched.v
         THEN extract_author_from_crossref(enriched.v["author"])
         ELSE IF "authors" \in DOMAIN enriched.v
         THEN LET authors == enriched.v["authors"]
              IN  IF Truthy(authors) /\ ~IsList(authors) THEN Raise
                  ELSE IF Truthy(authors) /\ IsDict(authors.v[1])
                  THEN extract_author_from_semantic_scholar(authors)
                  ELSE extract_author_from_arxiv(authors)
         ELSE Ret(PyStr(UnknownAuthor))
    ELSE LET raw_author == DictGet(meta, "/Author")
         IN  IF ~Truthy(raw_author) THEN Ret(PyStr(UnknownAuthor))
             ELSE IF ~IsStr(raw_author) THEN Raise
             ELSE Ret(PyStr(clean_author_name(raw_author.v)))

NoTitleSource == [t |-> "absent"]

\* lines 912-923: the value improved_title_extraction is applied to, or the
\* sentinel when no source has a title
TitleSource(enriched, meta, found) ==
    IF Truthy(enriched) /\ "title" \in DOMAIN enriched.v
    THEN IF IsList(enriched.v["title"])
         THEN (IF Truthy(enriched.v["title"]) THEN enriched.v["title"].v[1]
               ELSE PyStr(UnknownTitle))
         ELSE enriched.v["title"]
    ELSE IF Truthy(DictGet(meta, "/Title")) THEN DictGet(meta, "/Title")
    ELSE IF "title" \in DOMAIN found THEN PyStr(found["title"])
    ELSE NoTitleSource
\* a value that is not a str raises: in improved_title_extraction, or in the
\* slice full_title[:50] of the log line when it is None
CleanTitle(t) ==
    IF t = NoTitleSource THEN Ret(PyStr(UnknownTitle))
    ELSE IF ~IsStr(t) THEN Raise
    ELSE Ret(PyStr(improved_title_extraction(t.v)))
ResolveTitle(enriched, meta, found) == CleanTitle(TitleSource(enriched, meta, found))

\* re.search(r'D:(\d{4})', s): group 1 of the first match, or None
SearchPdfDate(s) ==
    LET hits == {i \in 1..(Len(s) - 5) :
                    s[i] = "D" /\ s[i + 1] = ":" /\ AllDigits(SubSeq(s, i + 2, i + 5))}
    IN  IF hits = {} THEN PyNone
        ELSE LET i == CHOOSE i \in hits : \A j \in hits : i <= j
             IN  PyStr(SubSeq(s, i + 2, i + 5))

\* x or "UnknownYear"
OrUnknownYear(r) ==
    IF r.raised THEN r ELSE IF Truthy(r.v) THEN r ELSE Ret(PyStr(UnknownYear))

ResolveYear(enriched, meta) ==
    IF Truthy(enriched)
    THEN IF "published-print" \in DOMAIN enriched.v \/ "published-online" \in DOMAIN enriched.v
         THEN OrUnknownYear(extract_year_from_crossref(enriched.v))
         ELSE IF "year" \in DOMAIN enriched.v
         THEN Ret(PyStr(PyToStr(enriched.v["year"])))
         ELSE IF "published" \in DOMAIN enriched.v
         THEN OrUnknownYear(extract_year_from_date_string(enriched.v["published"]))
         ELSE IF "publish_date" \in DOMAIN enriched.v
         THEN OrUnknownYear(extract_year_from_date_string(enriched.v["publish_date"]))
         ELSE Ret(PyStr(UnknownYear))
    ELSE LET raw_date == IF Truthy(DictGet(meta, "/CreationDate"))
                         THEN DictGet(meta, "/CreationDate")
                         ELSE DictGet(meta, "/ModDate")
         IN  IF ~Truthy(raw_date) THEN Ret(PyStr(UnknownYear))
             ELSE IF ~IsStr(raw_date) THEN Raise
             ELSE IF StartsWith(raw_date.v, <<"D", ":">>)
             THEN OrUnknownYear(Ret(SearchPdfDate(raw_date.v)))
             ELSE OrUnknownYear(Ret(SearchYear(raw_date.v)))

\* final_author, final_title and final_year, or the fact that one of the
\* three raised; create_filename raises on a value that is not a str
Resolved(a, t, y) ==
    IF a.raised \/ t.raised \/ y.raised THEN Raise
    ELSE IF ~IsStr(a.v) \/ ~IsStr(t.v) \/ ~IsStr(y.v) THEN Raise
    ELSE [raised |-> FALSE, author |-> a.v.v, title |-> t.v.v, year |-> y.v.v]
ResolveFields(enriched, meta, found) ==
    Resolved(ResolveAuthor(enriched, meta), ResolveTitle(enriched, meta, found),
             ResolveYear(enriched, meta))

\* a faulty variant of AnyUnknown: the author is not looked at
AnyUnknown_IgnoringAuthor(f) ==
    f.title = <<"U","n","k","n","o","w","n","T","i","t","l","e">>
        \/ f.year = <<"U","n","k","n","o","w","n","Y","e","a","r">>

\* line 948: any field equals its sentinel
AnyUnknown(f) ==
    f.author = UnknownAuthor \/ f.title = UnknownTitle \/ f.year = UnknownYear

\* lines 847 and 864: not enriched_data or not all(k in enriched_data ...)
NeedsFollowUp(enriched, keys) ==
    ~Truthy(enriched) \/ ~(keys \subseteq DOMAIN enriched.v)

(***************************************************************************)
(* Inputs: configurations, directory entries, PDFs and responses           *)
(***************************************************************************)
sWu == <<"W","u">>
sAWu == <<"A"," ","W","u">>
sT == <<"T">>
sZZ == <<"Z","Z">>
s2020 == <<"2","0","2","0">>
sDoi == <<"d">>
sArxiv == <<"x">>
sIsbn == <<"i">>

\* self.config, with the options this model varies
Configs ==
    {[DRY_RUN |-> TRUE, CREATE_BACKUP |-> TRUE,
      USE_ARXIV |-> TRUE, USE_SEMANTIC_SCHOLAR |-> TRUE],
     [DRY_RUN |-> FALSE, CREATE_BACKUP |-> TRUE,
      USE_ARXIV |-> TRUE, USE_SEMANTIC_SCHOLAR |-> TRUE],
     [DRY_RUN |-> FALSE, CREATE_BACKUP |-> FALSE,
      USE_ARXIV |-> TRUE, USE_SEMANTIC_SCHOLAR |-> TRUE],
     [DRY_RUN |-> FALSE, CREATE_BACKUP |-> TRUE,
      USE_ARXIV |-> FALSE, USE_SEMANTIC_SCHOLAR |-> FALSE]}

\* names of the entries of the input directory
NameA == <<"a",".","p","d","f">>
NameCanon == create_filename(sWu, s2020, sT)
NameTxt == <<"n",".","t","x","t">>
InitNames == <<NameCanon, NameA, NameTxt>>

InputDirectory == <<"/","i","n">>
PROBLEM_FOLDER == <<"n","e","e","d","s","-","a","t","t","e","n","t","i","o","n">>
BACKUP_FOLDER == <<".","p","d","f","_","b","a","c","k","u","p">>

\* lines 1016-1020: the test an entry of os.listdir(directory) passes
IsCandidate(directory, file) ==
    LET file_path == directory \o <<"/">> \o file
    IN  /\ EndsWith(ToLower(file), DotPdf)
        /\ Find(file_path, PROBLEM_FOLDER) = -1
        /\ Find(file_path, BACKUP_FOLDER) = -1

Page(raises, text, found) == [raises |-> raises, text |-> text, found |-> found]
PageKinds ==
    {Page(TRUE, FALSE, EmptyDict),
     Page(FALSE, FALSE, EmptyDict),
     Page(FALSE, TRUE, "title" :> sT),
     Page(FALSE, TRUE, "doi" :> sDoi),
     Page(FALSE, TRUE, "arxiv" :> sArxiv),
     Page(FALSE, TRUE, "isbn" :> sIsbn),
     Page(FALSE, TRUE, "doi" :> sDoi @@ "arxiv" :> sArxiv @@ "isbn" :> sIsbn @@ "title" :> sT)}
Pdfs == UNION {[1..n -> PageKinds] : n \in 0..MaxPdfPages}

\* reader.metadata or {}
RawMetadatas ==
    {EmptyDict,
     "/Author" :> PyStr(sAWu) @@ "/Title" :> PyStr(sT)
        @@ "/CreationDate" :> PyStr(<<"D",":">> \o s2020)}

Failures == {[kind |-> k] : k \in FailureKinds}
Ok(body) == [kind |-> "ok", body |-> body]

DateParts(y) == PyDict("date-parts" :> PyList(<<PyList(<<PyInt(y)>>)>>))
CrAuthor == PyList(<<PyDict("family" :> PyStr(sWu) @@ "given" :> PyStr(<<"A">>))>>)
S2Paper ==
    PyDict("title" :> PyStr(sT) @@ "authors" :> PyList(<<PyDict("name" :> PyStr(sAWu))>>)
           @@ "year" :> PyInt(2020))

CrossrefResponses ==
    Failures \cup
    {Ok(PyDict("message" :> PyDict("author" :> CrAuthor @@ "title" :> PyList(<<PyStr(sT)>>)
                                   @@ "published-print" :> DateParts(2020)))),
     Ok(PyDict("message" :> PyDict("title" :> PyList(<<PyStr(sT)>>)
                                   @@ "published-print" :> DateParts(2020)))),
     Ok(PyDict("message" :> EmptyRecord)),
     Ok(PyDict("message" :> PyNone))}

S2PaperResponses ==
    Failures \cup {Ok(S2Paper), Ok(PyDict("title" :> PyStr(sT)))}

S2SearchResponses ==
    Failures \cup
    {Ok(PyDict("data" :> PyList(<<S2Paper>>))),
     Ok(PyDict("data" :> PyList(<<PyDict("title" :> PyStr(sZZ))>>))),
     Ok(PyDict("data" :> PyList(<<>>)))}

ArxivResponses ==
    Failures \cup
    {Ok(PyDict("title" :> PyStr(sT) @@ "authors" :> PyList(<<PyStr(sAWu)>>)
               @@ "published" :> PyStr(s2020 \o <<"-","0","1">>))),
     Ok(PyDict("title" :> PyNone @@ "authors" :> PyList(<<>>) @@ "published" :> PyNone)),
     Ok(PyNone)}

OpenLibraryResponses ==
    Failures \cup
    {Ok(PyDict("title" :> PyStr(sT) @@ "authors" :> PyList(<<PyDict("name" :> PyStr(sAWu))>>)
               @@ "publish_date" :> PyStr(s2020))),
     Ok(EmptyRecord)}

(***************************************************************************)
(* State                                                                   *)
(***************************************************************************)
VARIABLES
    config,           \* self.config
    fs,               \* the files of the input directory and the review folder
    dirs,             \* the subfolders os.makedirs has made
    backups,          \* the copies in the backup folder
    api_cache,        \* self.api_cache
    stats,            \* self.stats
    pdf_files,        \* process_directory: the candidates
    idx,              \* process_directory: how many candidates are done
    results,          \* process_directory: one entry per file done
    summary_printed,  \* _print_summary was called
    pc,               \* the place in process_directory / process_single_pdf
    file_path,        \* process_single_pdf: the file being processed
    metadata,         \* reader.metadata or {}
    ids,              \* the identifiers extracted
    enriched_data,    \* the record the lookups gave
    alias,            \* the cache key whose entry is the object enriched_data, or NoKey
    metadata_source,
    needs_attention,
    final,            \* final_author, final_year, final_title once resolved
    new_filename,
    exc,              \* the exception the except clause of line 977 caught
    ret,              \* the tuple process_single_pdf returned
    backed_up,        \* history: backup_file returned True for this file
    calls,            \* history: the adapters called for this file
    last_call,        \* history: the last adapter call
    requests,         \* history: the requests sent, per cache key
    wire,             \* history: the sleeps and the requests of this file, in order
    fs0,              \* history: the file system at the start
    given,            \* a direct call of one method: the method and its arguments
    returned          \* a direct call of one method: what it returned

disk == <<fs, dirs, backups>>
batch == <<config, pdf_files, idx, results, stats, summary_printed, fs0>>
lookup == <<api_cache, requests, last_call, calls, wire>>
locals == <<metadata, ids, enriched_data, alias, metadata_source, needs_attention,
            final, new_filename, exc, ret, backed_up>>
unit == <<given, returned>>
vars == <<disk, batch, lookup, locals, pc, file_path, unit>>

Unresolved == [set |-> FALSE]
NoRet == [set |-> FALSE]
NoGiven == [method |-> "none"]
NotReturned == [set |-> FALSE]
NoCall == [key |-> NoKey, net |-> FALSE, failed |-> FALSE, raised |-> FALSE, v |-> EmptyRecord]

\* os.listdir(directory): at most NumFiles of the names, in the order of
\* InitNames
Listings ==
    {[i \in 1..Len(k) |-> InitNames[k[i]]] :
        k \in {k \in UNION {[1..n -> 1..Len(InitNames)] : n \in 0..NumFiles} :
                  \A i, j \in 1..Len(k) : i < j => k[i] < k[j]}}

LocalsInit ==
    /\ metadata = EmptyDict
    /\ ids = EmptyDict
    /\ enriched_data = EmptyRecord
    /\ alias = NoKey
    /\ metadata_source = "pdf_metadata"
    /\ needs_attention = FALSE
    /\ final = Unresolved
    /\ new_filename = <<>>
    /\ exc = "none"
    /\ ret = NoRet
    /\ backed_up = FALSE

Init ==
    /\ config \in Configs
    /\ \E l \in Listings : fs = [p \in {Path("dir", l[i]) : i \in 1..Len(l)} |->
                                    CHOOSE i \in 1..Len(l) : l[i] = p.name]
    /\ fs0 = fs
    /\ dirs = {}
    /\ backups = {}
    /\ api_cache = [k \in {} |-> EmptyRecord]
    /\ stats = [processed |-> 0, successful |-> 0, needs_attention |-> 0,
                failed |-> 0, skipped |-> 0]
    /\ pdf_files = <<>>
    /\ idx = 0
    /\ results = <<>>
    /\ summary_printed = FALSE
    /\ pc = "start"
    /\ file_path = NoPath
    /\ LocalsInit
    /\ calls = <<>>
    /\ last_call = NoCall
    /\ requests = [k \in {} |-> 0]
    /\ wire = <<>>
    /\ given = NoGiven
    /\ returned = NotReturned

(***************************************************************************)
(* process_directory and process_single_pdf                                *)
(***************************************************************************)
Outcome(success, status, name, attention) ==
    [set |-> TRUE, success |-> success, status |-> status,
     new_filename |-> name, needs_attention |-> attention]

MoveOutcomes == {"ok", "makedirs_fails", "move_fails"}

\* the directory argument of process_directory: InputDirectory unless the
\* call names another one
DirectoryOf(call) ==
    IF "directory" \in DOMAIN call THEN call.directory ELSE InputDirectory

\* what the world around the run lets happen at one place: any of all, unless
\* the call fixes the world, which then answers the same at every run
Offered(what, all) ==
    IF "world" \in DOMAIN given THEN {given.world[what]} ELSE all

\* lines 1010-1025: the candidates, in the order of the listing
ListDir ==
    /\ pc = "start"
    /\ LET cands == {p \in DOMAIN fs :
                        p.folder = "dir" /\ IsCandidate(DirectoryOf(given), p.name)}
           Rank(p) == Cardinality({q \in cands : fs[q] < fs[p]})
       IN  /\ pdf_files' = [i \in 1..Cardinality(cands) |->
                               CHOOSE p \in cands : Rank(p) = i - 1]
           /\ pc' = IF cands = {} THEN "done" ELSE "loop"
    /\ UNCHANGED <<unit, disk, config, idx, results, stats, summary_printed, fs0,
                   lookup, locals, file_path>>

\* a faulty variant of ShouldBackup: a dry run makes backups too
ShouldBackup_InDryRun(cfg) == cfg.CREATE_BACKUP

\* line 807: the condition under which backup_file is called
ShouldBackup(cfg) == ~cfg.DRY_RUN /\ cfg.CREATE_BACKUP

BackupOutcomes == {"ok", "makedirs_fails", "copy_fails"}

\* a faulty variant of backup_file: it answers True whatever happened
backup_file_AlwaysTrue(copies, made, path, file, how) ==
    [ok |-> TRUE,
     dirs |-> IF how = "makedirs_fails" THEN made ELSE made \cup {"backup"},
     backups |-> IF how = "ok" THEN copies \cup {[name |-> path.name, file |-> file]}
                 ELSE copies]

\* lines 755-771: copies is the content of the backup folder, file the content
\* of file_path; a failure of os.makedirs or shutil.copy2 is caught and
\* answered with False
backup_file(copies, made, path, file, how) ==
    IF how = "ok"
    THEN [ok |-> TRUE, dirs |-> made \cup {"backup"},
          backups |-> copies \cup {[name |-> path.name, file |-> file]}]
    ELSE [ok |-> FALSE, backups |-> copies,
          dirs |-> IF how = "copy_fails" THEN made \cup {"backup"} ELSE made]

\* lines 799-807: the next file; no backup in a dry run or without CREATE_BACKUP
BackupSkipped ==
    /\ pc = "loop" /\ idx < Len(pdf_files)
    /\ ~ShouldBackup(config)
    /\ file_path' = pdf_files[idx + 1]
    /\ pc' = "open"
    /\ UNCHANGED <<unit, disk, batch, lookup, locals>>

\* lines 807-808: backup_file returns True
BackupDone ==
    /\ pc = "loop" /\ idx < Len(pdf_files)
    /\ ShouldBackup(config)
    /\ file_path' = pdf_files[idx + 1]
    /\ \E how \in Offered("backup", BackupOutcomes) :
          LET b == backup_file(backups, dirs, pdf_files[idx + 1],
                               fs[pdf_files[idx + 1]], how)
          IN  /\ b.ok
              /\ dirs' = b.dirs
              /\ backups' = b.backups
    /\ backed_up' = TRUE
    /\ pc' = "open"
    /\ UNCHANGED <<unit, fs, batch, lookup, metadata, ids, enriched_data, alias,
                   metadata_source, needs_attention, final, new_filename, exc, ret>>

\* lines 808-812: backup_file returns False, and the file is moved to the
\* review folder under its own name
BackupFailed ==
    /\ pc = "loop" /\ idx < Len(pdf_files)
    /\ ShouldBackup(config)
    /\ file_path' = pdf_files[idx + 1]
    /\ \E bhow \in BackupOutcomes, how \in MoveOutcomes :
          LET b == backup_file(backups, dirs, pdf_files[idx + 1],
                               fs[pdf_files[idx + 1]], bhow)
              r == move_to_needs_attention(fs, b.dirs, pdf_files[idx + 1], how)
          IN  /\ ~b.ok
              /\ backups' = b.backups
              /\ fs' = r.fs
              /\ dirs' = r.dirs
              /\ IF r.raised
                 THEN /\ exc' = "move_error"
                      /\ pc' = "recover"
                      /\ ret' = ret
                 ELSE /\ ret' = Outcome(FALSE, <<"moved", "backup_failed">>,
                                        r.new_path.name, TRUE)
                      /\ pc' = "returned"
                      /\ exc' = exc
    /\ UNCHANGED <<unit, batch, lookup, metadata, ids, enriched_data, alias,
                   metadata_source, needs_attention, final, new_filename, backed_up>>

\* whether the PDF at path can be read: either, unless the call fixes the
\* world
Opens(path) ==
    IF "world" \in DOMAIN given THEN {path.name \notin given.world.unreadable}
    ELSE BOOLEAN

\* line 816: PdfReader(file_path), or the reading of the document, raises
OpenFails ==
    /\ pc = "open"
    /\ FALSE \in Opens(file_path)
    /\ exc' = "open_error"
    /\ pc' = "recover"
    /\ UNCHANGED <<unit, disk, batch, lookup, metadata, ids, enriched_data, alias,
                   metadata_source, needs_attention, final, new_filename, ret,
                   backed_up, file_path>>

\* lines 816-830: the metadata and the identifiers of the PDF
OpenPdf ==
    /\ pc = "open"
    /\ TRUE \in Opens(file_path)
    /\ \E meta \in Offered("metadata", RawMetadatas), pages \in Offered("pages", Pdfs) :
          /\ metadata' = meta
          /\ ids' = extract_ids_from_pdf(pages, MAX_PAGES_TO_SEARCH, config.USE_ARXIV)
    /\ pc' = "enrich"
    /\ UNCHANGED <<unit, disk, batch, lookup, enriched_data, alias, metadata_source,
                   needs_attention, final, new_filename, exc, ret, backed_up, file_path>>

\* a faulty variant of SleepsBefore: the follow-up is called at once
SleepsBefore_NotTheFollowUp(src) == src \notin {"s2_doi", "s2_arxiv"}

\* lines 839, 848, 856, 865, 873 and 885: time.sleep(self.config['API_DELAY'])
\* is the statement before the call of the adapter
SleepsBefore(src) ==
    src \in {"crossref", "s2_doi", "arxiv", "s2_arxiv", "openlibrary", "s2_title"}

\* the events of one lookup: the sleep, and the request when the adapter
\* sends one
LookupEvents(src, r) ==
    (IF SleepsBefore(src) THEN <<"sleep">> ELSE <<>>)
        \o (IF r.net THEN <<"request">> ELSE <<>>)

\* the history of one adapter call
RecordCall(key, resp, r) ==
    /\ wire' = wire \o LookupEvents(key.src, r)
    /\ requests' = IF r.net
                   THEN [k \in (DOMAIN requests) \cup {key} |->
                            (IF k \in DOMAIN requests THEN requests[k] ELSE 0)
                            + (IF k = key THEN 1 ELSE 0)]
                   ELSE requests
    /\ last_call' = [key |-> key, net |-> r.net,
                     failed |-> r.net /\ resp.kind \in FailureKinds,
                     raised |-> r.raised,
                     v |-> IF r.raised THEN EmptyRecord ELSE r.v]
    /\ calls' = Append(calls, key.src)

\* enriched_data = self.query_...(...); if enriched_data: metadata_source = ...
TakeRecord(r, source, next) ==
    /\ api_cache' = r.cache
    /\ IF r.raised
       THEN /\ exc' = "lookup_error"
            /\ pc' = "recover"
            /\ UNCHANGED <<enriched_data, alias, metadata_source>>
       ELSE /\ enriched_data' = r.v
            /\ alias' = IF r.alias THEN last_call'.key ELSE NoKey
            /\ metadata_source' = IF Truthy(r.v) THEN source ELSE metadata_source
            /\ pc' = next
            /\ exc' = exc

\* a faulty variant of EnrichmentBranch: an arXiv ID goes before a DOI
EnrichmentBranch_ArxivFirst(found) ==
    IF "arxiv" \in DOMAIN found THEN "arxiv"
    ELSE IF "doi" \in DOMAIN found THEN "doi"
    ELSE IF "isbn" \in DOMAIN found THEN "isbn"
    ELSE IF "title" \in DOMAIN found THEN "title"
    ELSE "none"

\* a faulty variant of LowConfidence: a file with a title only is not flagged
LowConfidence_OnlyWithoutTitle(branch) == branch = "none"

\* lines 837, 854, 871, 878 and 884: the branch of the if / elif chain
EnrichmentBranch(found) ==
    IF "doi" \in DOMAIN found THEN "doi"
    ELSE IF "arxiv" \in DOMAIN found THEN "arxiv"
    ELSE IF "isbn" \in DOMAIN found THEN "isbn"
    ELSE IF "title" \in DOMAIN found THEN "title"
    ELSE "none"

\* lines 878-881: the branches without doi, arxiv or isbn set needs_attention
LowConfidence(branch) == branch \in {"title", "none"}

\* lines 837-845
EnrichDoi ==
    /\ pc = "enrich"
    /\ EnrichmentBranch(ids) = "doi"
    /\ needs_attention' = LowConfidence("doi")
    /\ \E resp \in Offered("crossref", CrossrefResponses) :
          LET r == query_crossref(api_cache, ids["doi"], resp)
          IN  /\ RecordCall(CacheKey("crossref", ids["doi"]), resp, r)
              /\ TakeRecord(r, "doi_crossref",
                            IF NeedsFollowUp(r.v, {"author", "title"})
                            THEN "followup" ELSE "resolve")
    /\ UNCHANGED <<unit, disk, batch, metadata, ids, final, new_filename, ret,
                   backed_up, file_path>>

\* lines 854-862
EnrichArxiv ==
    /\ pc = "enrich"
    /\ EnrichmentBranch(ids) = "arxiv"
    /\ needs_attention' = LowConfidence("arxiv")
    /\ \E resp \in Offered("arxiv", ArxivResponses) :
          LET r == query_arxiv(api_cache, config.USE_ARXIV, ids["arxiv"], resp)
          IN  /\ RecordCall(CacheKey("arxiv", ids["arxiv"]), resp, r)
              /\ TakeRecord(r, "arxiv",
                            IF NeedsFollowUp(r.v, {"authors", "title"})
                            THEN "followup" ELSE "resolve")
    /\ UNCHANGED <<unit, disk, batch, metadata, ids, final, new_filename, ret,
                   backed_up, file_path>>

\* lines 871-876
EnrichIsbn ==
    /\ pc = "enrich"
    /\ EnrichmentBranch(ids) = "isbn"
    /\ needs_attention' = LowConfidence("isbn")
    /\ \E resp \in Offered("openlibrary", OpenLibraryResponses) :
          LET r == query_openlibrary(api_cache, ids["isbn"], resp)
          IN  /\ RecordCall(CacheKey("openlibrary", ids["isbn"]), resp, r)
              /\ TakeRecord(r, "isbn_openlibrary", "resolve")
    /\ UNCHANGED <<unit, disk, batch, metadata, ids, final, new_filename, ret,
                   backed_up, file_path>>

\* lines 878-888, with a title
EnrichByTitle ==
    /\ pc = "enrich"
    /\ EnrichmentBranch(ids) = "title"
    /\ needs_attention' = LowConfidence("title")
    /\ \E resp \in Offered("s2_title", S2SearchResponses) :
          LET r == query_semantic_scholar(api_cache, config.USE_SEMANTIC_SCHOLAR,
                                          ids["title"], "s2_title", resp)
          IN  /\ RecordCall(CacheKey("s2_title", ids["title"]), resp, r)
              /\ TakeRecord(r, "title_search", "resolve")
    /\ UNCHANGED <<unit, disk, batch, metadata, ids, final, new_filename, ret,
                   backed_up, file_path>>

\* lines 878-883, without a title
EnrichNothing ==
    /\ pc = "enrich"
    /\ EnrichmentBranch(ids) = "none"
    /\ needs_attention' = LowConfidence("none")
    /\ pc' = "resolve"
    /\ UNCHANGED <<unit, disk, batch, lookup, metadata, ids, enriched_data, alias,
                   metadata_source, final, new_filename, exc, ret, backed_up, file_path>>

\* lines 847-852 and 864-869: the Semantic Scholar follow-up and the merge
FollowUp ==
    /\ pc = "followup"
    /\ LET kind == IF "doi" \in DOMAIN ids THEN "doi" ELSE "arxiv"
           id_type == IF kind = "doi" THEN "s2_doi" ELSE "s2_arxiv"
           source == IF kind = "doi" THEN "doi_semantic_scholar"
                     ELSE "arxiv_semantic_scholar"
       IN  \E resp \in Offered(id_type, S2PaperResponses) :
              LET r == query_semantic_scholar(api_cache, config.USE_SEMANTIC_SCHOLAR,
                                              ids[kind], id_type, resp)
                  merged == PyDict(DictUpdate(enriched_data.v, r.v.v))
              IN  /\ RecordCall(CacheKey(id_type, ids[kind]), resp, r)
                  /\ IF r.raised \/ (Truthy(r.v) /\ (~IsDict(enriched_data) \/ ~IsDict(r.v)))
                     THEN /\ api_cache' = r.cache
                          /\ exc' = "lookup_error"
                          /\ pc' = "recover"
                          /\ UNCHANGED <<enriched_data, metadata_source>>
                     ELSE IF Truthy(r.v)
                     THEN /\ enriched_data' = merged
                          /\ api_cache' = IF alias # NoKey
                                          THEN [r.cache EXCEPT ![alias] = merged]
                                          ELSE r.cache
                          /\ metadata_source' = source
                          /\ pc' = "resolve"
                          /\ exc' = exc
                     ELSE /\ api_cache' = r.cache
                          /\ pc' = "resolve"
                          /\ UNCHANGED <<enriched_data, metadata_source, exc>>
    /\ UNCHANGED <<unit, disk, batch, metadata, ids, alias, needs_attention, final,
                   new_filename, ret, backed_up, file_path>>

\* lines 890-952: the final fields, the flag and the filename; r is what
\* ResolveFields gives
Resolution(r) ==
    IF r.raised
    THEN /\ exc' = "resolve_error"
         /\ pc' = "recover"
         /\ UNCHANGED <<final, needs_attention, new_filename>>
    ELSE /\ final' = [set |-> TRUE, author |-> r.author, year |-> r.year,
                      title |-> r.title]
         /\ needs_attention' = (needs_attention \/ AnyUnknown(r))
         /\ new_filename' = create_filename(r.author, r.year, r.title)
         /\ pc' = "route"
         /\ exc' = exc
Resolve ==
    /\ pc = "resolve"
    /\ Resolution(ResolveFields(enriched_data, metadata, ids))
    /\ UNCHANGED <<unit, disk, batch, lookup, metadata, ids, enriched_data, alias,
                   metadata_source, ret, backed_up, file_path>>

\* lines 969-975
RouteDryRun ==
    /\ pc = "route"
    /\ config.DRY_RUN
    /\ ret' = Outcome(TRUE,
                      <<IF needs_attention THEN "would_move" ELSE "would_rename",
                        metadata_source>>,
                      new_filename, needs_attention)
    /\ pc' = "returned"
    /\ UNCHANGED <<unit, disk, batch, lookup, metadata, ids, enriched_data, alias,
                   metadata_source, needs_attention, final, new_filename, exc,
                   backed_up, file_path>>

\* lines 955-961 and 975
RouteToReview ==
    /\ pc = "route"
    /\ ~config.DRY_RUN /\ needs_attention
    /\ \E how \in Offered("move", MoveOutcomes) :
          LET new_path == handle_duplicate_filenames(DOMAIN fs,
                              Path("review", new_filename), file_path)
          IN  IF how = "ok"
              THEN /\ dirs' = dirs \cup {"review"}
                   /\ fs' = MoveFile(fs, file_path, new_path)
                   /\ ret' = Outcome(TRUE, <<"moved", metadata_source>>,
                                     new_filename, needs_attention)
                   /\ pc' = "returned"
                   /\ exc' = exc
              ELSE /\ dirs' = IF how = "move_fails" THEN dirs \cup {"review"} ELSE dirs
                   /\ exc' = IF how = "move_fails" THEN "move_error" ELSE "makedirs_error"
                   /\ pc' = "recover"
                   /\ UNCHANGED <<fs, ret>>
    /\ UNCHANGED <<unit, backups, batch, lookup, metadata, ids, enriched_data, alias,
                   metadata_source, needs_attention, final, new_filename,
                   backed_up, file_path>>

\* lines 962-968 and 975
RouteRename ==
    /\ pc = "route"
    /\ ~config.DRY_RUN /\ ~needs_attention
    /\ LET new_path == handle_duplicate_filenames(DOMAIN fs,
                           Path("dir", new_filename), file_path)
       IN  \E renamed \in Offered("rename", BOOLEAN) :
              IF new_path = file_path \/ renamed
              THEN /\ fs' = IF new_path = file_path THEN fs
                            ELSE MoveFile(fs, file_path, new_path)
                   /\ ret' = Outcome(TRUE, <<"renamed", metadata_source>>,
                                     new_filename, needs_attention)
                   /\ pc' = "returned"
                   /\ exc' = exc
              ELSE /\ exc' = "rename_error"
                   /\ pc' = "recover"
                   /\ UNCHANGED <<fs, ret>>
    /\ UNCHANGED <<unit, dirs, backups, batch, lookup, metadata, ids, enriched_data, alias,
                   metadata_source, needs_attention, final, new_filename,
                   backed_up, file_path>>

\* a faulty variant of handle_exception: the error of the failed move is
\* reported in place of e
handle_exception_MoveErrorKept(cfg, files, made, path, e, how) ==
    LET r == move_to_needs_attention(files, made, path, how)
    IN  IF cfg.DRY_RUN
        THEN [fs |-> files, dirs |-> made,
              ret |-> Outcome(FALSE, <<"would_fail", e>>, path.name, FALSE)]
        ELSE IF r.raised
        THEN [fs |-> r.fs, dirs |-> r.dirs,
              ret |-> Outcome(FALSE, <<"error", "move_error">>, path.name, FALSE)]
        ELSE [fs |-> r.fs, dirs |-> r.dirs,
              ret |-> Outcome(FALSE, <<"moved", "processing_error">>,
                              r.new_path.name, TRUE)]

\* lines 977-989: the except clause, e the exception caught; a dry run
\* reports, a real run moves the file to the review folder, and reports e
\* when that move raises too
handle_exception(cfg, files, made, path, e, how) ==
    LET r == move_to_needs_attention(files, made, path, how)
    IN  IF cfg.DRY_RUN
        THEN [fs |-> files, dirs |-> made,
              ret |-> Outcome(FALSE, <<"would_fail", e>>, path.name, FALSE)]
        ELSE IF r.raised
        THEN [fs |-> r.fs, dirs |-> r.dirs,
              ret |-> Outcome(FALSE, <<"error", e>>, path.name, FALSE)]
        ELSE [fs |-> r.fs, dirs |-> r.dirs,
              ret |-> Outcome(FALSE, <<"moved", "processing_error">>,
                              r.new_path.name, TRUE)]

Recover ==
    /\ pc = "recover"
    /\ \E how \in Offered("move", MoveOutcomes) :
          LET h == handle_exception(config, fs, dirs, file_path, exc, how)
          IN  /\ fs' = h.fs
              /\ dirs' = h.dirs
              /\ ret' = h.ret
    /\ pc' = "returned"
    /\ UNCHANGED <<unit, backups, batch, lookup, metadata, ids, enriched_data, alias,
                   metadata_source, needs_attention, final, new_filename, exc,
                   backed_up, file_path>>

\* a faulty variant of Bump: nothing is counted
Bump_Nothing(counters, k) == counters

Bump(counters, k) == [counters EXCEPT ![k] = @ + 1]

\* lines 1038-1061: the outcome is counted and kept
Count ==
    /\ pc = "returned"
    /\ stats' = Bump(Bump(stats,
                          IF ret.needs_attention THEN "needs_attention"
                          ELSE IF ret.success THEN "successful" ELSE "failed"),
                     "processed")
    /\ results' = Append(results,
                         [original |-> file_path.name, new |-> ret.new_filename,
                          status |-> ret.status, success |-> ret.success,
                          needs_attention |-> ret.needs_attention])
    /\ idx' = idx + 1
    /\ pc' = "loop"
    /\ file_path' = NoPath
    /\ metadata' = EmptyDict
    /\ ids' = EmptyDict
    /\ enriched_data' = EmptyRecord
    /\ alias' = NoKey
    /\ metadata_source' = "pdf_metadata"
    /\ needs_attention' = FALSE
    /\ final' = Unresolved
    /\ new_filename' = <<>>
    /\ exc' = "none"
    /\ ret' = NoRet
    /\ backed_up' = FALSE
    /\ calls' = <<>>
    /\ last_call' = NoCall
    /\ wire' = <<>>
    /\ UNCHANGED <<unit, disk, config, pdf_files, summary_printed, fs0, api_cache, requests>>

\* lines 1071-1074
PrintSummary ==
    /\ pc = "loop" /\ idx = Len(pdf_files)
    /\ summary_printed' = TRUE
    /\ pc' = "done"
    /\ UNCHANGED <<unit, disk, config, pdf_files, idx, results, stats, fs0, lookup,
                   locals, file_path>>

Next ==
    \/ ListDir
    \/ BackupSkipped \/ BackupDone \/ BackupFailed
    \/ OpenFails \/ OpenPdf
    \/ EnrichDoi \/ EnrichArxiv \/ EnrichIsbn \/ EnrichByTitle \/ EnrichNothing
    \/ FollowUp
    \/ Resolve
    \/ RouteDryRun \/ RouteToReview \/ RouteRename
    \/ Recover
    \/ Count
    \/ PrintSummary

Spec == Init /\ [][Next]_vars

\* The interpreter runs the next statement: no step that can be taken is put
\* off for ever.  Resolve can be taken exactly when pc = "resolve" (it has no
\* other guard), and a step that takes pc from "resolve" to "route" or
\* "recover" is a Resolve step, so its fairness is stated on pc.
NextButResolve ==
    \/ ListDir
    \/ BackupSkipped \/ BackupDone \/ BackupFailed
    \/ OpenFails \/ OpenPdf
    \/ EnrichDoi \/ EnrichArxiv \/ EnrichIsbn \/ EnrichByTitle \/ EnrichNothing
    \/ FollowUp
    \/ RouteDryRun \/ RouteToReview \/ RouteRename
    \/ Recover
    \/ Count
    \/ PrintSummary
ResolveStep == pc = "resolve" /\ pc' \in {"route", "recover"}
FairSpec == Spec /\ WF_vars(NextButResolve) /\ WF_pc(ResolveStep)

(***************************************************************************)
(* Properties                                                              *)
(***************************************************************************)
\* the file being processed, and where a file is now
CurrentFile == fs0[file_path]
WhereIs(file) == CHOOSE p \in DOMAIN fs : fs[p] = file
InReview == WhereIs(CurrentFile).folder = "review"
AtOriginalPath == WhereIs(CurrentFile) = file_path
HasReturned == pc = "returned"
\* Terminal(Failed)
IsFailed(o) == ~o.success /\ ~o.needs_attention
HasSentinel ==
    /\ final.set
    /\ \/ final.author = <<"U","n","k","n","o","w","n","A","u","t","h","o","r">>
       \/ final.year = <<"U","n","k","n","o","w","n","Y","e","a","r">>
       \/ final.title = <<"U","n","k","n","o","w","n","T","i","t","l","e">>
NoHardIdentifier == (DOMAIN ids) \cap {"doi", "arxiv", "isbn"} = {}
IsPrefix(s, t) == Len(s) <= Len(t) /\ s = SubSeq(t, 1, Len(s))

\* C1 (as amended): in a non-dry run a file whose resolved fields hold a
\* sentinel is flagged needs-attention and is never renamed in place; it is
\* returned flagged and in the review folder, unless the move and the recovery
\* move both raised, in which case it is returned Failed at its original path.
C1_SentinelGoesToReview ==
    (~config.DRY_RUN /\ HasSentinel) =>
        /\ needs_attention
        /\ HasReturned =>
              /\ ret.status[1] # "renamed"
              /\ \/ ret.needs_attention /\ InReview
                 \/ IsFailed(ret) /\ exc \in {"move_error", "makedirs_error"}
                                  /\ AtOriginalPath

\* C1 as stated: every such file is returned flagged and in the review folder.
C1_SentinelAlwaysInReview ==
    (~config.DRY_RUN /\ HasSentinel /\ HasReturned) =>
        ret.needs_attention /\ InReview /\ ret.status[1] # "renamed"

\* a file with a DOI, flagged for its sentinel only, is moved to the review folder
C1_Witness ==
    /\ ~config.DRY_RUN /\ HasSentinel /\ HasReturned
    /\ "doi" \in DOMAIN ids
    /\ ret.success /\ ret.needs_attention /\ InReview

\* C2: no (source, identifier) pair is requested over the network more than
\* once in a run, also when the first request failed or gave an empty record.
C2_AtMostOneRequest == \A k \in DOMAIN requests : requests[k] <= 1

\* the second file is answered from the cache with the empty record of the
\* failed lookup of the first
C2_Witness ==
    /\ idx = 1
    /\ last_call.key \in DOMAIN requests
    /\ ~last_call.net
    /\ api_cache[last_call.key] = EmptyRecord
    /\ last_call.v = EmptyRecord

CountsAgree ==
    /\ Len(results) = Len(pdf_files)
    /\ \A i \in 1..Len(results) : results[i].original = pdf_files[i].name
    /\ stats.processed = Len(pdf_files)
    /\ stats.processed = stats.successful + stats.needs_attention + stats.failed

\* C3 (as amended): process_directory terminates; when it has, every candidate
\* has one outcome, counted once (processed = candidates = successful +
\* needs_attention + failed), and the summary was printed if there was at
\* least one candidate.
C3_Terminates ==
    /\ <>(pc = "done")
    /\ [](pc = "done" => CountsAgree /\ (pdf_files # <<>> => summary_printed))

\* C3 as stated: the summary is always reached.
C3_SummaryAlways == pc = "done" => CountsAgree /\ summary_printed

\* the summary is printed after every file of the batch failed
C3_Witness ==
    /\ pc = "done" /\ summary_printed
    /\ stats.processed = NumFiles /\ stats.failed = NumFiles

\* C4: a dry run changes nothing on the file system: no backup, no directory,
\* no move and no rename, on the error paths too.
C4_DryRunChangesNothing ==
    config.DRY_RUN => fs = fs0 /\ dirs = {} /\ backups = {}

\* a dry run has gone through the except clause
C4_Witness ==
    /\ config.DRY_RUN /\ HasReturned
    /\ ret.status[1] = "would_fail"
    /\ idx = 1

C6_ExceptionRecovered ==
    (~config.DRY_RUN /\ HasReturned /\ exc # "none") =>
        \/ /\ ret = Outcome(FALSE, <<"moved", "processing_error">>,
                            WhereIs(CurrentFile).name, TRUE)
           /\ InReview
        \/ /\ ret = Outcome(FALSE, <<"error", exc>>, file_path.name, FALSE)
           /\ AtOriginalPath

\* the PDF could not be opened and the recovery move raised
C6_Witness ==
    /\ ~config.DRY_RUN /\ HasReturned
    /\ exc = "open_error"
    /\ ret.status = <<"error", "open_error">>
    /\ AtOriginalPath

\* the rename of lines 962-967 is skipped: the target that
\* handle_duplicate_filenames gives is the path the file has
RenameSkipped ==
    /\ ret.status[1] = "renamed"
    /\ handle_duplicate_filenames(DOMAIN fs, Path("dir", ret.new_filename), file_path)
           = file_path

\* C7 (as amended): in a non-dry run a file is at its original path after
\* process_single_pdf returned only when the outcome is Failed, or when the
\* outcome is Renamed and the computed target is the path the file already
\* has; for every outcome other than these two the file has left that path,
\* and a Failed file is always at its original path.
C7_LeftInPlaceOnlyWhen ==
    (~config.DRY_RUN /\ HasReturned) =>
        /\ AtOriginalPath => (IsFailed(ret) \/ RenameSkipped)
        /\ IsFailed(ret) => AtOriginalPath

\* C7 as stated: a file is at its original path exactly when the outcome is
\* Failed.
C7_LeftInPlaceOnlyWhenFailed ==
    (~config.DRY_RUN /\ HasReturned) => (AtOriginalPath <=> IsFailed(ret))

\* a file that carries its computed name already is returned Renamed, in place
C7_Witness ==
    /\ ~config.DRY_RUN /\ HasReturned
    /\ AtOriginalPath /\ ret.success /\ ~ret.needs_attention
    /\ ret.new_filename = file_path.name

\* C8: an adapter whose request timed out, failed in transport, got a status
\* other than 200 or got a body that cannot be parsed returns the empty record
\* and raises nothing.
C8_FailureGivesEmptyRecord ==
    last_call.failed => ~last_call.raised /\ last_call.v = EmptyRecord

\* the title search failed and the processing went on
C8_Witness ==
    /\ last_call.failed
    /\ last_call.key.src = "s2_title"
    /\ pc = "resolve"

\* C9 (as amended): a file without doi, arxiv and isbn is flagged
\* needs-attention once the enrichment is over, whatever the title search
\* gave; returned without an exception it is flagged and, in a non-dry run, in
\* the review folder; when its move raised in a non-dry run it is returned
\* flagged in the review folder or, the recovery move having raised too,
\* Failed at its original path.  A file without a title either has no lookup.
C9_NoIdentifierIsFlagged ==
    /\ (pc \in {"resolve", "route"} /\ NoHardIdentifier) => needs_attention
    /\ (HasReturned /\ NoHardIdentifier /\ ret.success) =>
           ret.needs_attention /\ (~config.DRY_RUN => InReview)
    /\ (HasReturned /\ NoHardIdentifier /\ final.set /\ ~ret.success /\ ~config.DRY_RUN) =>
           \/ ret.needs_attention /\ InReview
           \/ IsFailed(ret) /\ AtOriginalPath
    /\ (DOMAIN ids = {}) => calls = <<>>

\* C9 as stated: every such file is returned flagged and, in a non-dry run, is
\* in the review folder.
C9_NoIdentifierAlwaysFlagged ==
    (HasReturned /\ NoHardIdentifier /\ final.set) =>
        ret.needs_attention /\ (~config.DRY_RUN => InReview)

\* the title search gave every field, and the file is in the review folder
C9_Witness ==
    /\ ~config.DRY_RUN /\ HasReturned /\ ret.success
    /\ NoHardIdentifier /\ calls = <<"s2_title">>
    /\ final.set /\ ~HasSentinel
    /\ metadata_source = "title_search"
    /\ ret.needs_attention /\ InReview

\* C10: the adapters called for a file are those of one branch, chosen by
\* DOI > arXiv ID > ISBN > title: with a DOI, the DOI registry and then
\* Semantic Scholar by DOI and nothing else, whatever they return; with an
\* arXiv ID and no DOI, arXiv and then Semantic Scholar by arXiv ID; with an
\* ISBN and neither, the catalog only; with a title only, the title search.
C10_OneBranchByPriority ==
    /\ "doi" \in DOMAIN ids => IsPrefix(calls, <<"crossref", "s2_doi">>)
    /\ ("doi" \notin DOMAIN ids /\ "arxiv" \in DOMAIN ids) =>
           IsPrefix(calls, <<"arxiv", "s2_arxiv">>)
    /\ ((DOMAIN ids) \cap {"doi", "arxiv"} = {} /\ "isbn" \in DOMAIN ids) =>
           IsPrefix(calls, <<"openlibrary">>)
    /\ (NoHardIdentifier /\ "title" \in DOMAIN ids) => IsPrefix(calls, <<"s2_title">>)
    /\ (pc \in {"resolve", "route"} /\ ~NoHardIdentifier) => calls # <<>>

\* a file with a DOI, an arXiv ID, an ISBN and a title, whose two DOI lookups
\* gave nothing
C10_Witness ==
    /\ DOMAIN ids = {"doi", "arxiv", "isbn", "title"}
    /\ calls = <<"crossref", "s2_doi">>
    /\ ~Truthy(enriched_data)
    /\ pc = "resolve"


(***************************************************************************)
(* Direct calls of one method                                              *)
(*                                                                         *)
(* The specifications below call one method of PDFRenamer on arguments     *)
(* drawn from a bounded set: `given` holds the method and its arguments,   *)
(* `returned` what it returned.  The pipeline is idle (pc is "call", then  *)
(* "called").                                                              *)
(***************************************************************************)
\* the longest text given to a method that works on one string
MaxTextLen == 3

\* the strings of at most n characters of chars
Texts(chars, n) == UNION {[1..k -> chars] : k \in 0..n}

\* the state of a PDFRenamer on which process_directory has not run
FreshRenamerWith(options) ==
    /\ config = options
    /\ dirs = {}
    /\ backups = {}
    /\ api_cache = [k \in {} |-> EmptyRecord]
    /\ stats = [processed |-> 0, successful |-> 0, needs_attention |-> 0,
                failed |-> 0, skipped |-> 0]
    /\ pdf_files = <<>>
    /\ idx = 0
    /\ results = <<>>
    /\ summary_printed = FALSE
    /\ file_path = NoPath
    /\ LocalsInit
    /\ calls = <<>>
    /\ last_call = NoCall
    /\ requests = [k \in {} |-> 0]
    /\ wire = <<>>

FreshRenamer ==
    FreshRenamerWith([DRY_RUN |-> FALSE, CREATE_BACKUP |-> TRUE, USE_ARXIV |-> TRUE,
                      USE_SEMANTIC_SCHOLAR |-> TRUE])

\* a fresh PDFRenamer and no file
Idle ==
    /\ FreshRenamer
    /\ fs = [p \in {} |-> 0]
    /\ fs0 = fs

DirectCallInit(arguments) ==
    /\ Idle
    /\ pc = "call"
    /\ given \in arguments
    /\ returned = NotReturned

\* the method returns v and leaves the object as it was
Return(v) ==
    /\ pc = "call"
    /\ returned' = [set |-> TRUE, v |-> v]
    /\ pc' = "called"
    /\ UNCHANGED <<disk, batch, lookup, locals, file_path, given>>

Called(method) == pc = "called" /\ given.method = method

(***************************************************************************)
(* sanitize_filename, called directly                                      *)
(***************************************************************************)
\* characters of every class sanitize_filename treats differently
SanitizeChars == {"a", ":", "/", "*", " ", ".", "NUL", "DEL", "\t",
                  "e-acute", "han-zhong", "c1-control"}

\* values of CONFIG['COLON_REPLACEMENT']: the default, the example of the
\* help text, and values a settings file or --colon-replace can give
ColonReplacements == {COLON_REPLACEMENT, <<"_">>, <<>>, <<":">>, <<";", ":">>}

SanitizeCalls ==
    {[method |-> "sanitize_filename", colon_replacement |-> r, filename |-> f] :
        r \in ColonReplacements, f \in Texts(SanitizeChars, MaxTextLen)}

SanitizeInit == DirectCallInit(SanitizeCalls)

Call_sanitize_filename ==
    /\ given.method = "sanitize_filename"
    /\ Return(sanitize_filename_with(given.colon_replacement, given.filename))

SanitizeSpec == SanitizeInit /\ [][Call_sanitize_filename]_vars

\* the characters a filename must not contain: < > : " / \ | ? *, the control
\* characters, and (after the ASCII filter) every character outside ASCII
Forbidden == ProblemChars \cup {":"}
IsSafeCh(c) == c \notin Forbidden /\ ~IsControlCh(c) /\ c \notin DOMAIN TranslitTable

\* nothing of the text survives sanitization: every character is removed,
\* blanked or trimmed
NothingRemains(text) ==
    \A i \in 1..Len(text) :
        \/ text[i] \in ProblemChars \cup {" ", "."}
        \/ IsControlCh(text[i])
        \/ (text[i] \in DOMAIN TranslitTable /\ TranslitTable[text[i]] = <<>>)

\* C11: for every input string and every configured colon replacement,
\* sanitize_filename returns a string without any of < > : " / \ | ? * and
\* without control characters, and returns "UnknownFile" when nothing
\* remains after sanitization.
C11_SanitizedIsSafe ==
    Called("sanitize_filename") =>
        /\ \A i \in 1..Len(returned.v) : IsSafeCh(returned.v[i])
        /\ returned.v # <<>>
        /\ NothingRemains(given.filename) => returned.v = UnknownFile

\* a colon of the input comes back as the colon of the replacement
C11_Witness ==
    /\ Called("sanitize_filename")
    /\ given.colon_replacement = <<":">>
    /\ given.filename = <<"a", ":", "a">>
    /\ returned.v = <<"a", ":", "a">>

\* C11, under a colon replacement that holds no colon: the output is safe
C11_SafeWithoutColonInReplacement ==
    Called("sanitize_filename") /\ ~InSeq(":", given.colon_replacement) =>
        /\ \A i \in 1..Len(returned.v) : IsSafeCh(returned.v[i])
        /\ returned.v # <<>>
        /\ NothingRemains(given.filename) => returned.v = UnknownFile


(***************************************************************************)
(* create_filename, called directly                                        *)
(***************************************************************************)
\* the most words of a title given to create_filename
MaxTitleWords == 3

Rep(c, n) == [i \in 1..n |-> c]

\* the titles of at most MaxTitleWords of the words, joined by one space
TitlesOf(words) ==
    {JoinWords(ws) : ws \in UNION {[1..k -> words] : k \in 1..MaxTitleWords}}

\* words for a MAX_TITLE_LENGTH of 10
ShortWords ==
    {<<"a">>, <<"a","b">>, <<"t","h","e">>, <<"A","B">>, <<"a","-">>,
     <<"h","i","j","k","l">>, <<"t","h","e","o","r","y">>,
     <<"a","b","c","d","e","f","g">>}

\* words for the default MAX_TITLE_LENGTH: their lengths put the last space
\* of the first 70 characters on either side of 70 * 0.7
LongWords ==
    {Rep("A", 49), Rep("A", 50), Rep("b", 19), Rep("b", 21), <<"a","b">>,
     <<"t","h","e">>, <<"t","h","e","o","r","y">>,
     <<"a","b">> \o Rep("-", 18) \o <<"c","d">>}

\* values of CONFIG['MAX_TITLE_LENGTH']: one a settings file can give, and
\* the default
CreateFilenameCalls ==
    {[method |-> "create_filename", max_title_length |-> 10,
      author |-> sWu, year |-> s2020, title |-> t] : t \in TitlesOf(ShortWords)}
    \cup
    {[method |-> "create_filename", max_title_length |-> MAX_TITLE_LENGTH,
      author |-> sWu, year |-> s2020, title |-> t] :
        t \in TitlesOf(ShortWords) \cup TitlesOf(LongWords)}

CreateFilenameInit == DirectCallInit(CreateFilenameCalls)

Call_create_filename ==
    /\ given.method = "create_filename"
    /\ Return(create_filename_with(given.max_title_length, COLON_REPLACEMENT,
                                   given.author, given.year, given.title))

CreateFilenameSpec == CreateFilenameInit /\ [][Call_create_filename]_vars

\* the title segment of a filename f"{author_clean} - {year_clean} - {title_clean}.pdf"
TitlePart(author, year, filename) ==
    SubSeq(filename,
           Len(sanitize_filename(author)) + Len(Sep) + Len(sanitize_filename(year))
               + Len(Sep) + 1,
           Len(filename) - Len(DotPdf))

\* the title segment stops inside a word of the title: it ends in a
\* lowercase letter and the title goes on with a letter or a digit
EndsInCutWord(segment, title_clean) ==
    /\ segment # <<>>
    /\ Len(segment) < Len(title_clean)
    /\ segment = SubSeq(title_clean, 1, Len(segment))
    /\ IsLowerCh(segment[Len(segment)])
    /\ IsWordCh(title_clean[Len(segment) + 1])

\* C12: for every author, year and title, the title segment of the filename
\* create_filename returns is at most MAX_TITLE_LENGTH long, and a title that
\* was cut does not end in a partially cut, lowercase-terminated word.
C12_TitleFitsAndEndsWhole ==
    Called("create_filename") =>
        /\ Len(TitlePart(given.author, given.year, returned.v)) <= given.max_title_length
        /\ Len(TitleClean(COLON_REPLACEMENT, given.title)) > given.max_title_length
            => ~EndsInCutWord(TitlePart(given.author, given.year, returned.v),
                              TitleClean(COLON_REPLACEMENT, given.title))

\* with MAX_TITLE_LENGTH 10 the title "abcdefg hijkl" is cut to "abcdefg hi"
C12_Witness ==
    /\ Called("create_filename")
    /\ given.max_title_length = 10
    /\ given.title = <<"a","b","c","d","e","f","g"," ","h","i","j","k","l">>
    /\ TitlePart(given.author, given.year, returned.v)
           = <<"a","b","c","d","e","f","g"," ","h","i">>

\* C12, the length: the title segment is never longer than MAX_TITLE_LENGTH
C12_TitleFits ==
    Called("create_filename") =>
        Len(TitlePart(given.author, given.year, returned.v)) <= given.max_title_length

\* C12, under the default MAX_TITLE_LENGTH: no title is left cut inside a word
C12_WholeAtDefaultLength ==
    Called("create_filename") /\ given.max_title_length = MAX_TITLE_LENGTH =>
        ~EndsInCutWord(TitlePart(given.author, given.year, returned.v),
                       TitleClean(COLON_REPLACEMENT, given.title))

\* a title of more than 70 characters was cut at its last space
C12_CutAtDefaultLength ==
    /\ Called("create_filename")
    /\ given.max_title_length = MAX_TITLE_LENGTH
    /\ Len(given.title) > MAX_TITLE_LENGTH
    /\ Len(TitlePart(given.author, given.year, returned.v)) > 49


(***************************************************************************)
(* process_directory, run a second time over the same directory          *)
(***************************************************************************)
\* the directories of the first run: a.pdf and a file that already carries
\* the canonical name, listed in either order
RerunDirectories ==
    {[p \in {Path("dir", NameA), Path("dir", NameCanon)} |->
         IF p.name = NameA THEN 1 ELSE 2],
     [p \in {Path("dir", NameA), Path("dir", NameCanon)} |->
         IF p.name = NameA THEN 2 ELSE 1],
     [p \in {Path("dir", NameCanon)} |-> 1]}

RerunInit ==
    /\ config = [DRY_RUN |-> FALSE, CREATE_BACKUP |-> FALSE, USE_ARXIV |-> TRUE,
                 USE_SEMANTIC_SCHOLAR |-> TRUE]
    /\ fs \in RerunDirectories
    /\ fs0 = fs
    /\ dirs = {}
    /\ backups = {}
    /\ api_cache = [k \in {} |-> EmptyRecord]
    /\ stats = [processed |-> 0, successful |-> 0, needs_attention |-> 0,
                failed |-> 0, skipped |-> 0]
    /\ pdf_files = <<>>
    /\ idx = 0
    /\ results = <<>>
    /\ summary_printed = FALSE
    /\ pc = "start"
    /\ file_path = NoPath
    /\ LocalsInit
    /\ calls = <<>>
    /\ last_call = NoCall
    /\ requests = [k \in {} |-> 0]
    /\ wire = <<>>
    /\ given = [method |-> "process_directory", run |-> 1]
    /\ returned = NotReturned

\* the files the run renamed (success, not flagged), each with the filename
\* create_filename computed for it
RenamedBy(entries, files) ==
    LET kept == {i \in 1..Len(entries) :
                    entries[i].success /\ ~entries[i].needs_attention}
    IN  [f \in {files[Path("dir", entries[i].original)] : i \in kept} |->
            entries[CHOOSE i \in kept : files[Path("dir", entries[i].original)] = f].new]

\* main() is run again on the directory the first run left: a new PDFRenamer
\* (empty cache, zero statistics) lists the directory as it is now
Rerun ==
    /\ pc = "done"
    /\ given.method = "process_directory" /\ given.run = 1
    /\ given' = [given EXCEPT !.run = 2]
    /\ returned' = [set |-> TRUE, renamed |-> RenamedBy(results, fs0)]
    /\ fs0' = fs
    /\ api_cache' = [k \in {} |-> EmptyRecord]
    /\ requests' = [k \in {} |-> 0]
    /\ stats' = [processed |-> 0, successful |-> 0, needs_attention |-> 0,
                 failed |-> 0, skipped |-> 0]
    /\ pdf_files' = <<>>
    /\ idx' = 0
    /\ results' = <<>>
    /\ summary_printed' = FALSE
    /\ pc' = "start"
    /\ UNCHANGED <<disk, config, locals, file_path, calls, last_call, wire>>

\* the steps of a run without dry run and without backups
RerunNext ==
    \/ ListDir
    \/ BackupSkipped
    \/ OpenFails \/ OpenPdf
    \/ EnrichDoi \/ EnrichArxiv \/ EnrichIsbn \/ EnrichByTitle \/ EnrichNothing
    \/ FollowUp
    \/ Resolve
    \/ RouteToReview \/ RouteRename
    \/ Recover
    \/ Count
    \/ PrintSummary
    \/ Rerun

RerunSpec == RerunInit /\ [][RerunNext]_vars

\* process_single_pdf has returned Renamed in the second run
RenamedAgain ==
    /\ given.method = "process_directory" /\ given.run = 2
    /\ pc = "returned"
    /\ ret.success /\ ~ret.needs_attention

\* the file carries the name computed for it, with the collision suffix n
CarriesSuffix(n) == file_path.name = Numbered(ret.new_filename, n)

\* another file is at the path
TakenByOther(p) == p \in DOMAIN fs /\ fs[p] # CurrentFile

\* the computed name and every smaller suffix are still taken by other files
StillTaken(n) ==
    /\ TakenByOther(Path("dir", ret.new_filename))
    /\ \A m \in 1..(n - 1) : TakenByOther(Path("dir", Numbered(ret.new_filename, m)))

\* C13 (amended): in a second run a file that is not flagged and already
\* carries its computed name stays at the same path, and so does a file
\* that carries the computed name with a collision suffix " (n)" as long as
\* the computed name and every smaller suffix are still taken; a suffixed
\* file whose computed name has become free is renamed.
C13_RerunKeepsNamedFiles ==
    RenamedAgain =>
        /\ file_path.name = ret.new_filename => AtOriginalPath
        /\ \A n \in 1..NumFiles :
              CarriesSuffix(n) =>
                  (AtOriginalPath <=> StillTaken(n))

\* C13 as stated: in a second run every file the first run renamed, which
\* is not flagged and for which the same filename is computed again, stays
\* at the same path.
C13_RerunRenamesNothing ==
    RenamedAgain
    /\ CurrentFile \in DOMAIN returned.renamed
    /\ returned.renamed[CurrentFile] = ret.new_filename
        => AtOriginalPath

\* the second run leaves in place a file that carries the suffix " (1)"
\* while the file with the computed name is still there
C13_Witness ==
    /\ RenamedAgain
    /\ CurrentFile \in DOMAIN returned.renamed
    /\ CarriesSuffix(1) /\ StillTaken(1)
    /\ AtOriginalPath

\* the second run renames a suffixed file whose computed name is free
C13_RenamedOnRerun ==
    /\ RenamedAgain
    /\ CurrentFile \in DOMAIN returned.renamed
    /\ returned.renamed[CurrentFile] = ret.new_filename
    /\ CarriesSuffix(1)
    /\ WhereIs(CurrentFile) = Path("dir", ret.new_filename)


(***************************************************************************)
(* handle_duplicate_filenames, called directly: the loop of lines 749-753  *)
(* one iteration at a time                                                 *)
(***************************************************************************)
\* the largest collision suffix among the paths that exist
MaxSuffix == 2

nX == <<"X", ".", "p", "d", "f">>
nBare == <<"X">>
nHidden == <<".", "p", "d", "f">>

\* names with an extension, without one, and with a leading dot only, and
\* their numbered forms
DuplicateNames ==
    {nX, nBare, nHidden}
    \cup {Numbered(nX, n) : n \in 1..MaxSuffix}
    \cup {Numbered(nBare, 1), Numbered(nHidden, 1)}

DuplicateCalls ==
    {[method |-> "handle_duplicate_filenames",
      exists |-> {Path("dir", n) : n \in names},
      target_path |-> Path("dir", t),
      original_path |-> Path("dir", o)] :
        names \in SUBSET DuplicateNames, t \in {nX, nBare, nHidden},
        o \in DuplicateNames}

DuplicateInit == DirectCallInit(DuplicateCalls)

\* a faulty variant of PathIsFree: the file's own path is not free
PathIsFree_OnlyAbsent(exists, new_path, original_path) == new_path \notin exists

\* line 751: the numbered path does not exist, or is the file's own path
PathIsFree(exists, new_path, original_path) ==
    new_path \notin exists \/ new_path = original_path

\* f"{base_path} ({counter}){ext}" for the target of the call
NumberedTarget(counter) ==
    Path(given.target_path.folder, Numbered(given.target_path.name, counter))

\* lines 740-744: the target is the file's own path, or is free
ReturnTarget ==
    /\ given.method = "handle_duplicate_filenames"
    /\ given.target_path = given.original_path
           \/ given.target_path \notin given.exists
    /\ Return(given.target_path)

\* lines 746-747
EnterLoop ==
    /\ pc = "call"
    /\ given.method = "handle_duplicate_filenames"
    /\ given.target_path # given.original_path
    /\ given.target_path \in given.exists
    /\ returned' = [set |-> FALSE, counter |-> 1]
    /\ pc' = "while"
    /\ UNCHANGED <<disk, batch, lookup, locals, file_path, given>>

\* lines 750-752
ReturnNumbered ==
    /\ pc = "while"
    /\ PathIsFree(given.exists, NumberedTarget(returned.counter), given.original_path)
    /\ returned' = [set |-> TRUE, v |-> NumberedTarget(returned.counter)]
    /\ pc' = "called"
    /\ UNCHANGED <<disk, batch, lookup, locals, file_path, given>>

\* line 753
NextCounter ==
    /\ pc = "while"
    /\ ~PathIsFree(given.exists, NumberedTarget(returned.counter), given.original_path)
    /\ returned' = [returned EXCEPT !.counter = @ + 1]
    /\ UNCHANGED <<disk, batch, lookup, locals, file_path, given, pc>>

DuplicateNext == ReturnTarget \/ EnterLoop \/ ReturnNumbered \/ NextCounter

DuplicateSpec == DuplicateInit /\ [][DuplicateNext]_vars

\* the interpreter runs the next statement of the loop
FairDuplicateSpec == DuplicateSpec /\ WF_vars(DuplicateNext)

\* what the claim says of the path returned
SmallestFreeSuffix(exists, target_path, original_path, path) ==
    IF target_path = original_path \/ target_path \notin exists
    THEN path = target_path
    ELSE \E n \in 1..(Cardinality(exists) + 1) :
            /\ path = Path(target_path.folder, Numbered(target_path.name, n))
            /\ path \notin exists \/ path = original_path
            /\ \A m \in 1..(n - 1) :
                  LET p == Path(target_path.folder, Numbered(target_path.name, m))
                  IN  p \in exists /\ p # original_path

\* C14: handle_duplicate_filenames returns the target unchanged when it is
\* the original path or does not exist, and otherwise "<base> (n)<ext>" for
\* the smallest n >= 1 whose path does not exist or is the original path;
\* the call returns for every finite set of existing paths.  The path is
\* also the one the pipeline's handle_duplicate_filenames gives.
C14_SmallestFreeSuffix ==
    /\ <>(pc = "called")
    /\ [](Called("handle_duplicate_filenames") =>
            /\ SmallestFreeSuffix(given.exists, given.target_path,
                                  given.original_path, returned.v)
            /\ returned.v = handle_duplicate_filenames(given.exists, given.target_path,
                                                       given.original_path))

\* "X.pdf" and "X (1).pdf" exist and belong to other files: "X (2).pdf"
C14_Witness ==
    /\ Called("handle_duplicate_filenames")
    /\ given.target_path = Path("dir", nX)
    /\ given.original_path = Path("dir", nBare)
    /\ {Path("dir", nX), Path("dir", Numbered(nX, 1))} \subseteq given.exists
    /\ returned.v = Path("dir", Numbered(nX, 2))


(***************************************************************************)
(* The listing of process_directory, over other names and directories      *)
(***************************************************************************)
NameUpper == <<"A", ".", "P", "D", "F">>
\* "needs-attention.pdf" and "x.pdf_backup.pdf": names that contain the name
\* of the review folder and of the backup folder
NameLikeReview == PROBLEM_FOLDER \o DotPdf
NameLikeBackup == <<"x">> \o BACKUP_FOLDER \o DotPdf
\* os.listdir gives the entries in this order
ListedNames == <<NameA, NameUpper, NameTxt, NameLikeReview, NameLikeBackup, PROBLEM_FOLDER>>

\* "/in", and "/in/needs-attention": the review folder of an earlier run,
\* given as the directory to process
ListedDirectories == {InputDirectory, InputDirectory \o <<"/">> \o PROBLEM_FOLDER}

\* the entries of the directory, numbered in the order of the listing
ListedFiles ==
    {[p \in {Path("dir", ListedNames[i]) : i \in which} |->
         CHOOSE i \in which : ListedNames[i] = p.name] :
        which \in SUBSET (1..Len(ListedNames))}

ListingInit ==
    /\ FreshRenamer
    /\ pc = "start"
    /\ fs \in ListedFiles
    /\ fs0 = fs
    /\ given \in {[method |-> "process_directory", run |-> 2, directory |-> d] :
                     d \in ListedDirectories}
    /\ returned = NotReturned

ListingSpec == ListingInit /\ [][ListDir]_vars

Listed == given.method = "process_directory" /\ "directory" \in DOMAIN given
              /\ pc \in {"loop", "done"}

\* C15: the candidates are exactly the entries of the input directory whose
\* name ends case-insensitively in ".pdf", whatever else the name or the
\* path of the directory contains.
C15_CandidatesArePdfEntries ==
    Listed =>
        {pdf_files[i] : i \in 1..Len(pdf_files)}
            = {p \in DOMAIN fs : p.folder = "dir" /\ EndsWith(ToLower(p.name), DotPdf)}

\* "needs-attention.pdf" is in "/in" and is not a candidate
C15_Witness ==
    /\ Listed
    /\ given.directory = InputDirectory
    /\ Path("dir", NameLikeReview) \in DOMAIN fs
    /\ \A i \in 1..Len(pdf_files) : pdf_files[i] # Path("dir", NameLikeReview)

\* C15, for the names and directory paths that contain neither folder name:
\* the candidates are the entries that end in ".pdf"
C15_CandidatesUnlessFolderNameInPath ==
    Listed =>
        {pdf_files[i] : i \in 1..Len(pdf_files)}
            = {p \in DOMAIN fs :
                  /\ p.folder = "dir" /\ EndsWith(ToLower(p.name), DotPdf)
                  /\ Find(given.directory \o <<"/">> \o p.name, PROBLEM_FOLDER) = -1
                  /\ Find(given.directory \o <<"/">> \o p.name, BACKUP_FOLDER) = -1}

\* a directory whose path contains the review folder's name: no candidate
C15_NothingListed ==
    /\ Listed
    /\ given.directory # InputDirectory
    /\ Path("dir", NameA) \in DOMAIN fs
    /\ pdf_files = <<>>


(***************************************************************************)
(* query_semantic_scholar(title, 'title'), called directly                 *)
(***************************************************************************)
\* the shortest and the longest title queried, and the most characters the
\* title of the top result has beyond those of the query
MinQueryLen == 16
MaxQueryLen == 20
MaxExtraLen == 8

\* The query is n times "a".  The title of the top result holds the n
\* characters of the query, in either case, after or before k other
\* characters: the matching blocks of SequenceMatcher total n characters and
\* ratio() is 2n / (2n + k).
TopTitles(n) ==
    UNION {{Rep(c, n) \o Rep("b", k), Rep("b", k) \o Rep(c, n)} :
              c \in {"a", "A"}, k \in 0..MaxExtraLen}

TitleSearchCalls ==
    UNION {{[method |-> "query_semantic_scholar", id_type |-> "s2_title",
             identifier |-> Rep("a", n),
             resp |-> Ok(PyDict("data" :> PyList(<<PyDict("title" :> PyStr(t))>>)))] :
               t \in TopTitles(n)} : n \in MinQueryLen..MaxQueryLen}

TitleSearchInit == DirectCallInit(TitleSearchCalls)

Call_query_semantic_scholar ==
    /\ given.method = "query_semantic_scholar"
    /\ Return(query_semantic_scholar(api_cache, config.USE_SEMANTIC_SCHOLAR,
                                     given.identifier, given.id_type, given.resp).v)

TitleSearchSpec == TitleSearchInit /\ [][Call_query_semantic_scholar]_vars

\* the top result of the response of the call, and its title
TopResult == given.resp.body.v["data"].v[1]
TopTitle == TopResult.v["title"].v

\* 100 * ratio(), for the queries and titles of TitleSearchCalls
SimilarityPercentNum == 100 * 2 * Len(given.identifier)
SimilarityPercentDen == Len(given.identifier) + Len(TopTitle)

\* C16 (amended): the title search returns the top result exactly when its
\* similarity to the queried title is at least FUZZY_MATCH_THRESHOLD (equal
\* to it, or greater), and an empty record otherwise.
C16_AcceptedAtOrAboveThreshold ==
    Called("query_semantic_scholar") =>
        IF SimilarityPercentNum >= FuzzyNum * SimilarityPercentDen
        THEN returned.v = TopResult
        ELSE returned.v = EmptyRecord

\* C16 as stated: the top result is returned only when its similarity is
\* strictly greater than FUZZY_MATCH_THRESHOLD.
C16_AcceptedOnlyAboveThreshold ==
    Called("query_semantic_scholar") /\ returned.v = TopResult =>
        SimilarityPercentNum > FuzzyNum * SimilarityPercentDen

\* a result whose similarity is exactly 0.85 (17 characters matched of 17 and
\* 23) is returned
C16_Witness ==
    /\ Called("query_semantic_scholar")
    /\ Len(given.identifier) = 17 /\ Len(TopTitle) = 23
    /\ returned.v = TopResult

\* a result whose similarity is below 0.85 gives the empty record
C16_RejectedBelowThreshold ==
    /\ Called("query_semantic_scholar")
    /\ Len(given.identifier) = 17 /\ Len(TopTitle) = 24
    /\ returned.v = EmptyRecord


(***************************************************************************)
(* The Semantic Scholar follow-up: lines 846-851 and 863-868               *)
(***************************************************************************)
\* the follow-up of line 849 or 866 found a record and merged it
FollowUpMerged ==
    /\ pc = "resolve"
    /\ metadata_source \in {"doi_semantic_scholar", "arxiv_semantic_scholar"}

\* the step of the follow-up that merges its record into a non-empty primary
\* record
MergesIntoPrimary ==
    /\ pc = "followup" /\ pc' = "resolve"
    /\ IsDict(enriched_data) /\ Truthy(enriched_data)
    /\ metadata_source' \in {"doi_semantic_scholar", "arxiv_semantic_scholar"}

\* C17: a Semantic Scholar follow-up record merged into a non-empty primary
\* record leaves every field of the primary record with the value it had, and
\* only adds the fields that were absent.
C17_FollowUpKeepsPrimaryFields ==
    [][MergesIntoPrimary =>
          \A k \in DOMAIN enriched_data.v :
              k \in DOMAIN enriched_data'.v /\ enriched_data'.v[k] = enriched_data.v[k]]_vars

\* CrossRef gave a record with a title (a list) and a date but no author; the
\* follow-up was merged, and the title is now the string of Semantic Scholar
C17_Witness ==
    /\ FollowUpMerged
    /\ calls = <<"crossref", "s2_doi">>
    /\ "published-print" \in DOMAIN enriched_data.v
    /\ enriched_data.v["title"] = PyStr(sT)

\* no follow-up is merged into a non-empty record of arXiv, which always has
\* the keys 'authors' and 'title'
C17_ArxivRecordIsWholeOrEmpty ==
    (FollowUpMerged /\ metadata_source = "arxiv_semantic_scholar") =>
        "published" \notin DOMAIN enriched_data.v


(***************************************************************************)
(* extract_ids_from_pdf, called directly and followed page by page         *)
(***************************************************************************)
\* the most pages of a PDF whose pages vary freely, and the limit a caller
\* passes as max_pages
MaxScanPages == 4
SmallMaxPages == 2

\* what the extractors find on a page is stamped with the number of the page
Stamp(i) == <<Digits[(i \div 10) + 1], Digits[(i % 10) + 1]>>
StampedPage(layout, i) ==
    Page(layout.raises, layout.text, [k \in layout.keys |-> <<k>> \o Stamp(i)])

Layout(raises, text, keys) == [raises |-> raises, text |-> text, keys |-> keys]
PageLayouts ==
    {Layout(TRUE, FALSE, {}),
     Layout(FALSE, FALSE, {}),
     Layout(FALSE, TRUE, {"title"}),
     Layout(FALSE, TRUE, {"arxiv", "title"}),
     Layout(FALSE, TRUE, {"doi", "arxiv", "isbn", "title"})}

\* PDFs of up to MaxScanPages pages of any layout, and PDFs of about
\* MAX_PAGES_TO_SEARCH pages that have a title on every page and a DOI on
\* one page at most
ShortPdfs ==
    UNION {{[i \in 1..n |-> StampedPage(f[i], i)] : f \in [1..n -> PageLayouts]} :
              n \in 0..MaxScanPages}
LongPdfs ==
    {[i \in 1..n |-> StampedPage(Layout(FALSE, TRUE,
                                        IF i = at THEN {"doi", "title"} ELSE {"title"}), i)] :
        n \in (MAX_PAGES_TO_SEARCH - 1)..(MAX_PAGES_TO_SEARCH + 2),
        at \in 0..(MAX_PAGES_TO_SEARCH + 2)}

\* max_pages is None unless the caller passes a limit
ExtractIdsCalls ==
    {[method |-> "extract_ids_from_pdf", pages |-> pages, max_pages |-> m] :
        pages \in ShortPdfs \cup LongPdfs, m \in {PyNone, PyInt(SmallMaxPages)}}

ExtractIdsInit ==
    /\ \E use_arxiv \in BOOLEAN :
           FreshRenamerWith([DRY_RUN |-> FALSE, CREATE_BACKUP |-> TRUE,
                             USE_ARXIV |-> use_arxiv, USE_SEMANTIC_SCHOLAR |-> TRUE])
    /\ fs = [p \in {} |-> 0]
    /\ fs0 = fs
    /\ pc = "call"
    /\ given \in ExtractIdsCalls
    /\ returned = NotReturned

\* lines 370-373
PagesToCheck(call) ==
    LET max_pages == IF call.max_pages = PyNone THEN MAX_PAGES_TO_SEARCH
                     ELSE call.max_pages.v
    IN  IF max_pages < Len(call.pages) THEN max_pages ELSE Len(call.pages)

\* line 375, and the loop of line 377 entered; read is the history of the
\* pages whose text was asked for
EnterPages ==
    /\ pc = "call"
    /\ given.method = "extract_ids_from_pdf"
    /\ returned' = [set |-> FALSE, v |-> EmptyDict, page_num |-> 0, read |-> <<>>]
    /\ pc' = "for"
    /\ UNCHANGED <<disk, batch, lookup, locals, file_path, given>>

\* lines 378-424: the body of the loop for one page, left by continue, by
\* break or at its end
ReadPage ==
    /\ pc = "for"
    /\ returned.page_num < PagesToCheck(given)
    /\ LET page == given.pages[returned.page_num + 1]
           after == ScanPage(returned.v, returned.page_num, page, config.USE_ARXIV)
           read == Append(returned.read, returned.page_num)
       IN  IF page.raises \/ ~page.text
           THEN /\ returned' = [returned EXCEPT !.page_num = @ + 1, !.read = read]
                /\ pc' = pc
           ELSE IF (DOMAIN after) \cap IdKinds # {}
           THEN /\ returned' = [returned EXCEPT !.set = TRUE, !.v = after, !.read = read]
                /\ pc' = "called"
           ELSE /\ returned' = [returned EXCEPT !.v = after, !.page_num = @ + 1,
                                                !.read = read]
                /\ pc' = pc
    /\ UNCHANGED <<disk, batch, lookup, locals, file_path, given>>

\* line 426, the pages to check being exhausted
ReturnIds ==
    /\ pc = "for"
    /\ returned.page_num >= PagesToCheck(given)
    /\ returned' = [returned EXCEPT !.set = TRUE]
    /\ pc' = "called"
    /\ UNCHANGED <<disk, batch, lookup, locals, file_path, given>>

ExtractIdsNext == EnterPages \/ ReadPage \/ ReturnIds
ExtractIdsSpec == ExtractIdsInit /\ [][ExtractIdsNext]_vars

\* the page has a DOI, an arXiv ID that is looked for, or an ISBN
HasIdentifier(page) ==
    /\ ~page.raises /\ page.text
    /\ \E k \in DOMAIN page.found : k \in IdKinds /\ (k = "arxiv" => config.USE_ARXIV)

\* the numbers (from 0) of the pages in reach that have an identifier
IdentifierPages ==
    {i \in 0..(PagesToCheck(given) - 1) : HasIdentifier(given.pages[i + 1])}

Scanning == given.method = "extract_ids_from_pdf" /\ pc \in {"for", "called"}

\* every page read is in reach, and none comes after a page with an identifier
ReadInOrderUntilIdentifier ==
    \A n \in 1..Len(returned.read) :
        /\ returned.read[n] = n - 1
        /\ n <= MAX_PAGES_TO_SEARCH \/ given.max_pages # PyNone
        /\ given.max_pages # PyNone => n <= given.max_pages.v
        /\ \A i \in IdentifierPages : returned.read[n] <= i

\* the title is the one of page 1, and the identifiers are those of one page
FromOnePage ==
    /\ "title" \in DOMAIN returned.v =>
           /\ returned.read # <<>>
           /\ "title" \in DOMAIN given.pages[1].found
           /\ returned.v["title"] = given.pages[1].found["title"]
    /\ \A k \in (DOMAIN returned.v) \cap IdKinds :
           \E i \in IdentifierPages :
               /\ \A j \in IdentifierPages : i <= j
               /\ k \in DOMAIN given.pages[i + 1].found
               /\ returned.v[k] = given.pages[i + 1].found[k]

\* C18: in extract_ids_from_pdf a populated key of the identifier set is never
\* overwritten, the title is set from page 1 only, no page is read after the
\* first page on which a DOI, an arXiv ID or an ISBN was found, and at most
\* MAX_PAGES_TO_SEARCH pages (max_pages, when the caller passes it) are read.
C18_IdentifiersFromFirstPageFound ==
    /\ [](Scanning => ReadInOrderUntilIdentifier /\ FromOnePage)
    /\ [](Called("extract_ids_from_pdf") =>
             returned.v = extract_ids_from_pdf(given.pages,
                              IF given.max_pages = PyNone THEN MAX_PAGES_TO_SEARCH
                              ELSE given.max_pages.v, config.USE_ARXIV))
    /\ [][pc = "for" =>
             \A k \in DOMAIN returned.v :
                 k \in DOMAIN returned'.v /\ returned'.v[k] = returned.v[k]]_vars

\* a PDF of more than MAX_PAGES_TO_SEARCH pages was read to the limit and its
\* title is the one of page 1, every later page having another title
C18_Witness ==
    /\ Called("extract_ids_from_pdf")
    /\ given.max_pages = PyNone
    /\ Len(given.pages) > MAX_PAGES_TO_SEARCH
    /\ Len(returned.read) = MAX_PAGES_TO_SEARCH
    /\ DOMAIN returned.v = {"title"}
    /\ returned.v["title"] = <<"title">> \o Stamp(1)

\* the scan stopped at page 2, which has an arXiv ID; page 3 has a DOI
C18_StoppedAtFirstIdentifier ==
    /\ Called("extract_ids_from_pdf")
    /\ Len(given.pages) >= 3 /\ given.max_pages = PyNone
    /\ returned.read = <<0, 1>>
    /\ "doi" \in DOMAIN given.pages[3].found
    /\ DOMAIN returned.v = {"title", "arxiv"}


(***************************************************************************)
(* A run over a directory whose review folder holds files already          *)
(***************************************************************************)
\* the names the review folder may hold: the name of an entry of the input
\* directory, and that name numbered; the folder holds the first at least,
\* and the input directory holds the entry
ReviewNames == {NameA, Numbered(NameA, 1)}

ReviewInit ==
    /\ \E options \in Configs : FreshRenamerWith(options)
    /\ \E l \in Listings, held \in SUBSET ReviewNames :
          /\ NameA \in held
          /\ \E i \in 1..Len(l) : l[i] = NameA
          /\ fs = [p \in {Path("dir", l[i]) : i \in 1..Len(l)}
                            \cup {Path("review", n) : n \in held} |->
                      IF p.folder = "dir" THEN CHOOSE i \in 1..Len(l) : l[i] = p.name
                      ELSE IF p.name = NameA THEN Len(InitNames) + 1
                      ELSE Len(InitNames) + 2]
    /\ fs0 = fs
    /\ pc = "start"
    /\ given = NoGiven
    /\ returned = NotReturned

ReviewSpec == ReviewInit /\ [][Next]_vars

\* backup_file was called for the file and returned False
BackupHasFailed ==
    /\ ShouldBackup(config) /\ ~backed_up
    /\ pc \in {"recover", "returned"}

\* nothing was read from the PDF and no adapter was called
NothingLookedUp ==
    /\ metadata = EmptyDict /\ ids = EmptyDict
    /\ calls = <<>> /\ enriched_data = EmptyRecord
    /\ ~final.set

\* the file is in the review folder under the name returned: its own name,
\* or its own name numbered when another file has that name there; and every
\* file there was is still there
MovedUnderOwnName ==
    /\ InReview
    /\ WhereIs(CurrentFile).name = ret.new_filename
    /\ \/ ret.new_filename = file_path.name
       \/ /\ \E n \in 1..(Cardinality(DOMAIN fs0) + 1) :
                /\ ret.new_filename = Numbered(file_path.name, n)
                /\ \A m \in 0..(n - 1) :
                      LET taken == Path("review", IF m = 0 THEN file_path.name
                                                  ELSE Numbered(file_path.name, m))
                      IN  taken \in DOMAIN fs /\ fs[taken] # CurrentFile
    /\ \A p \in DOMAIN fs0 : \E q \in DOMAIN fs : fs[q] = fs0[p]

\* C19 (amended): when the backup copy fails in a non-dry run with backups
\* enabled, nothing is extracted or looked up; the file is moved into the
\* review folder under its original name (numbered on a collision) and
\* returned with success false, needs-attention true and reason backup_failed,
\* unless that move raises: then the except clause moves it the same way and
\* returns reason processing_error, or, its move raising too, returns Failed
\* with the file at its original path.
C19_BackupFailureGoesToReview ==
    BackupHasFailed =>
        /\ NothingLookedUp
        /\ exc \in {"none", "move_error"}
        /\ HasReturned =>
              \/ /\ exc = "none"
                 /\ ret = Outcome(FALSE, <<"moved", "backup_failed">>,
                                  ret.new_filename, TRUE)
                 /\ MovedUnderOwnName
              \/ /\ exc = "move_error"
                 /\ ret = Outcome(FALSE, <<"moved", "processing_error">>,
                                  ret.new_filename, TRUE)
                 /\ MovedUnderOwnName
              \/ /\ exc = "move_error"
                 /\ ret = Outcome(FALSE, <<"error", "move_error">>, file_path.name, FALSE)
                 /\ AtOriginalPath

\* C19 as stated: the file is always moved and returned with reason
\* backup_failed.
C19_BackupFailureAlwaysMoved ==
    (BackupHasFailed /\ HasReturned) =>
        /\ NothingLookedUp
        /\ ret = Outcome(FALSE, <<"moved", "backup_failed">>, ret.new_filename, TRUE)
        /\ MovedUnderOwnName

\* the backup failed and the file went to the review folder, where its name
\* and its name numbered (1) were taken, as "a (2).pdf"
C19_Witness ==
    /\ BackupHasFailed /\ HasReturned
    /\ ret = Outcome(FALSE, <<"moved", "backup_failed">>, Numbered(NameA, 2), TRUE)
    /\ fs[Path("review", Numbered(NameA, 2))] = CurrentFile
    /\ Path("review", NameA) \in DOMAIN fs

\* the backup failed, the move raised and the move of the except clause too
C19_LeftInPlace ==
    /\ BackupHasFailed /\ HasReturned
    /\ IsFailed(ret) /\ AtOriginalPath


(***************************************************************************)
(* The fallback to the metadata of the PDF: lines 896-942                  *)
(***************************************************************************)
EnrichedKeys == IF IsDict(enriched_data) THEN DOMAIN enriched_data.v ELSE {}
AuthorKeys == {"author", "authors"}
YearKeys == {"published-print", "published-online", "year", "published", "publish_date"}

\* the PDF has the field embedded
Embedded(key) == key \in DOMAIN metadata /\ Truthy(metadata[key])

\* the value of each field that the metadata of the PDF gives
PdfAuthor == clean_author_name(metadata["/Author"].v)
PdfTitle == improved_title_extraction(metadata["/Title"].v)
PdfYear == SearchPdfDate(metadata["/CreationDate"].v).v

\* C20: for each of author, year and title, when the enriched record has no
\* value for the field the value embedded in the PDF is used if there is one,
\* and the field is its sentinel only when the PDF has none either.
C20_FieldFallsBackToPdf ==
    final.set =>
        /\ (EnrichedKeys \cap AuthorKeys = {} /\ Embedded("/Author")) =>
               final.author = PdfAuthor
        /\ ("title" \notin EnrichedKeys /\ Embedded("/Title")) =>
               final.title = PdfTitle
        /\ (EnrichedKeys \cap YearKeys = {} /\ Embedded("/CreationDate")) =>
               final.year = PdfYear

\* the enriched record has a title and a date and no author, the PDF has an
\* /Author, and the author is the sentinel
C20_Witness ==
    /\ final.set
    /\ EnrichedKeys = {"title", "published-print"}
    /\ Embedded("/Author")
    /\ final.author = UnknownAuthor
    /\ final.year = s2020

\* when the enriched record is empty, every field the PDF has embedded is
\* taken from the PDF; and the title is taken from the PDF whenever the
\* enriched record has no title
C20_PdfValuesWhenNothingEnriched ==
    final.set =>
        /\ (~Truthy(enriched_data) /\ Embedded("/Author")) => final.author = PdfAuthor
        /\ (~Truthy(enriched_data) /\ Embedded("/CreationDate")) => final.year = PdfYear
        /\ ("title" \notin EnrichedKeys /\ Embedded("/Title")) => final.title = PdfTitle

\* the year is the sentinel although the PDF has a /CreationDate: the
\* enriched record has a title only
C20_YearNotFromPdf ==
    /\ final.set
    /\ EnrichedKeys = {"title"}
    /\ Embedded("/CreationDate")
    /\ final.year = UnknownYear


(***************************************************************************)
(* The year of an enriched record: lines 924-933, entered directly         *)
(***************************************************************************)
s1850 == <<"1","8","5","0">>
NoDateParts == PyDict("date-parts" :> PyList(<<>>))

\* the values a record may have under each key it has
YearFieldValues ==
    [x \in {"published-print", "created", "year", "published", "publish_date"} |->
        CASE x = "published-print" -> {DateParts(2020), NoDateParts}
          [] x = "created" -> {DateParts(2019)}
          [] x = "year" -> {PyInt(2018), PyNone}
          [] x = "published" -> {PyStr(<<"2","0","1","7","-","0","1">>), PyStr(s1850)}
          [] x = "publish_date" -> {PyStr(<<"M","a","y"," ","2","0","1","6">>)}]

\* the non-empty records over these keys
YearRecords ==
    UNION {{PyDict(d) : d \in {f \in [keys -> UNION {YearFieldValues[k] : k \in keys}] :
                                  \A k \in keys : f[k] \in YearFieldValues[k]}} :
              keys \in (SUBSET DOMAIN YearFieldValues) \ {{}}}

FinalYearCalls == {[method |-> "final_year", enriched_data |-> e] : e \in YearRecords}
FinalYearInit == DirectCallInit(FinalYearCalls)

\* lines 924-933 with the PDF having no date; final_year is returned
Call_final_year ==
    /\ given.method = "final_year"
    /\ Return(ResolveYear(given.enriched_data, EmptyDict))

FinalYearSpec == FinalYearInit /\ [][Call_final_year]_vars

\* the first run of four digits of s that stands alone and is a year of
\* 1000-9999, or None
FourDigitYear(s) ==
    LET hits == {i \in 1..(Len(s) - 3) :
                    /\ AllDigits(SubSeq(s, i, i + 3)) /\ s[i] # "0"
                    /\ (i = 1 \/ ~IsWordCh(s[i - 1]))
                    /\ (i + 3 = Len(s) \/ ~IsWordCh(s[i + 4]))}
    IN  IF hits = {} THEN PyNone
        ELSE LET i == CHOOSE i \in hits : \A j \in hits : i <= j
             IN  PyStr(SubSeq(s, i, i + 3))

\* what each of the four sources yields for the record e: a str, or None
YearOfDateParts(e) == extract_year_from_crossref(e).v
YearOfYearField(e) ==
    IF "year" \in DOMAIN e /\ IsInt(e["year"]) THEN PyStr(IntToStr(e["year"].v))
    ELSE PyNone
YearOfText(e, key) ==
    IF key \in DOMAIN e /\ IsStr(e[key]) THEN FourDigitYear(e[key].v) ELSE PyNone

\* the sources in order, each tried when the ones before it yield nothing
YearInOrder(e) ==
    IF YearOfDateParts(e) # PyNone THEN YearOfDateParts(e)
    ELSE IF YearOfYearField(e) # PyNone THEN YearOfYearField(e)
    ELSE IF YearOfText(e, "published") # PyNone THEN YearOfText(e, "published")
    ELSE IF YearOfText(e, "publish_date") # PyNone THEN YearOfText(e, "publish_date")
    ELSE PyStr(UnknownYear)

\* C21: the year of an enriched record is that of the first source, in the
\* order date-parts (published-print, published-online, created, deposited),
\* year, published, publish_date, that yields one, and the sentinel only when
\* none of the four yields one.
C21_YearFromFirstSourceThatYields ==
    Called("final_year") =>
        ~returned.v.raised /\ returned.v.v = YearInOrder(given.enriched_data.v)

\* the record has a published-print without date-parts and the year 2018, and
\* the year is the sentinel
C21_Witness ==
    /\ Called("final_year")
    /\ given.enriched_data = PyDict("published-print" :> NoDateParts @@ "year" :> PyInt(2018))
    /\ returned.v = Ret(PyStr(UnknownYear))

\* when the first source whose key the record has yields a year, that year
\* is the result
C21_YearOfFirstKeyPresent ==
    Called("final_year") =>
        LET e == given.enriched_data.v
        IN  /\ ("published-print" \in DOMAIN e /\ YearOfDateParts(e) # PyNone) =>
                   returned.v.v = YearOfDateParts(e)
            /\ (DOMAIN e \cap {"published-print", "published-online"} = {}
                  /\ YearOfYearField(e) # PyNone) =>
                   returned.v.v = YearOfYearField(e)

\* a record with created and no published-print or published-online: its
\* date-parts are not looked at
C21_CreatedNotLookedAt ==
    /\ Called("final_year")
    /\ DOMAIN given.enriched_data.v = {"created"}
    /\ returned.v = Ret(PyStr(UnknownYear))

\* a null year field gives the text "None"
C21_NullYearAsText ==
    /\ Called("final_year")
    /\ DOMAIN given.enriched_data.v = {"year", "published"}
    /\ given.enriched_data.v["year"] = PyNone
    /\ returned.v = Ret(PyStr(NoneStr))


(***************************************************************************)
(* The delay between the lookups                                           *)
(***************************************************************************)
\* C22: every request an adapter sends is preceded, with nothing between, by
\* a sleep of API_DELAY: the requests of one file start after a sleep and
\* have a sleep between them, and so have the requests of consecutive files.
C22_SleepBeforeEveryRequest ==
    \A i \in 1..Len(wire) :
        wire[i] = "request" => (i > 1 /\ wire[i - 1] = "sleep")

\* the second file of a run sent two requests, each after a sleep
C22_Witness ==
    /\ idx = 1
    /\ requests # [k \in {} |-> 0]
    /\ wire = <<"sleep", "request", "sleep", "request">>

\* a sleep without a request: the record came from the cache
C22_SleepWithoutRequest ==
    /\ idx = 1
    /\ wire = <<"sleep">>
    /\ last_call.key # NoKey /\ ~last_call.net


(***************************************************************************)
(* A dry run and then a real run over the same directory, in one world     *)
(***************************************************************************)
\* the services are up (with or without an author at CrossRef) or down
CrossrefWithoutAuthor ==
    Ok(PyDict("message" :> PyDict("title" :> PyList(<<PyStr(sT)>>)
                                  @@ "published-print" :> DateParts(2020))))
CrossrefWhole ==
    Ok(PyDict("message" :> PyDict("author" :> CrAuthor @@ "title" :> PyList(<<PyStr(sT)>>)
                                  @@ "published-print" :> DateParts(2020))))
Networks ==
    {[crossref |-> c, s2_doi |-> Ok(S2Paper), s2_arxiv |-> Ok(S2Paper),
      s2_title |-> Ok(PyDict("data" :> PyList(<<S2Paper>>))),
      arxiv |-> Ok(PyDict("title" :> PyStr(sT) @@ "authors" :> PyList(<<PyStr(sAWu)>>)
                          @@ "published" :> PyStr(s2020 \o <<"-","0","1">>))),
      openlibrary |-> Ok(PyDict("title" :> PyStr(sT)
                                @@ "authors" :> PyList(<<PyDict("name" :> PyStr(sAWu))>>)
                                @@ "publish_date" :> PyStr(s2020)))] :
         c \in {CrossrefWhole, CrossrefWithoutAuthor}}
      \cup {[src \in {"crossref", "s2_doi", "s2_arxiv", "s2_title", "arxiv", "openlibrary"} |->
                [kind |-> "timeout"]]}

\* a world: the PDFs that cannot be read, what the others hold, what the
\* services answer; and a file system on which every operation succeeds
Worlds ==
    {[src \in DOMAIN n \cup {"unreadable", "metadata", "pages", "backup", "move", "rename"} |->
         CASE src = "unreadable" -> u
           [] src = "metadata" -> m
           [] src = "pages" -> p
           [] src = "backup" -> "ok"
           [] src = "move" -> "ok"
           [] src = "rename" -> TRUE
           [] OTHER -> n[src]] :
        n \in Networks, u \in SUBSET {NameA, NameCanon}, m \in RawMetadatas, p \in Pdfs}

TwinInit ==
    /\ \E options \in {o \in Configs : o.DRY_RUN} : FreshRenamerWith(options)
    /\ \E l \in Listings : fs = [p \in {Path("dir", l[i]) : i \in 1..Len(l)} |->
                                    CHOOSE i \in 1..Len(l) : l[i] = p.name]
    /\ fs0 = fs
    /\ pc = "start"
    /\ given \in {[method |-> "process_directory", run |-> 0, world |-> w] : w \in Worlds}
    /\ returned = NotReturned

\* main() is run again without --dry-run: a new PDFRenamer on the same
\* directory; what the dry run reported is kept in returned
RunForReal ==
    /\ pc = "done"
    /\ given.method = "process_directory" /\ given.run = 0
    /\ config.DRY_RUN
    /\ given' = [given EXCEPT !.run = 1]
    /\ returned' = [set |-> TRUE, results |-> results, stats |-> stats]
    /\ config' = [config EXCEPT !.DRY_RUN = FALSE]
    /\ api_cache' = [k \in {} |-> EmptyRecord]
    /\ requests' = [k \in {} |-> 0]
    /\ stats' = [processed |-> 0, successful |-> 0, needs_attention |-> 0,
                 failed |-> 0, skipped |-> 0]
    /\ pdf_files' = <<>>
    /\ idx' = 0
    /\ results' = <<>>
    /\ summary_printed' = FALSE
    /\ pc' = "start"
    /\ UNCHANGED <<disk, fs0, locals, file_path, calls, last_call, wire>>

TwinNext ==
    \/ ListDir \/ BackupSkipped \/ BackupDone \/ OpenFails \/ OpenPdf
    \/ EnrichDoi \/ EnrichArxiv \/ EnrichIsbn \/ EnrichByTitle \/ EnrichNothing
    \/ FollowUp \/ Resolve \/ RouteDryRun \/ RouteToReview \/ RouteRename
    \/ Recover \/ Count \/ PrintSummary \/ RunForReal

TwinSpec == TwinInit /\ [][TwinNext]_vars

\* renamed, needs-attention or failed, as process_directory counts
Classification(entry) ==
    IF entry.needs_attention THEN "needs-attention"
    ELSE IF entry.success THEN "renamed" ELSE "failed"

BothRunsDone == pc = "done" /\ given.method = "process_directory" /\ given.run = 1 /\ returned.set

\* C23: for the same directory and the same answers of the sources, the dry
\* run reports for every file the classification and the filename that the
\* real run produces, and the same statistics.
C23_DryRunReportsTheRealOutcome ==
    BothRunsDone =>
        /\ Len(returned.results) = Len(results)
        /\ \A i \in 1..Len(results) :
              /\ returned.results[i].original = results[i].original
              /\ Classification(returned.results[i]) = Classification(results[i])
              /\ returned.results[i].new = results[i].new
        /\ returned.stats = stats

\* one PDF cannot be read: the dry run counted it failed, the real run moved
\* it to the review folder and counted it needs-attention
C23_Witness ==
    /\ BothRunsDone
    /\ Len(results) = 1 /\ results[1].original = NameA
    /\ NameA \in given.world.unreadable
    /\ Classification(returned.results[1]) = "failed"
    /\ Classification(results[1]) = "needs-attention"
    /\ returned.stats.failed = 1 /\ stats.failed = 0 /\ stats.needs_attention = 1
    /\ Path("review", NameA) \in DOMAIN fs

\* the files that are processed without an exception have the same
\* classification and filename in both runs, and the two runs see the same
\* files
C23_SameWithoutException ==
    BothRunsDone =>
        /\ Len(returned.results) = Len(results)
        /\ \A i \in 1..Len(results) :
              /\ returned.results[i].original = results[i].original
              /\ returned.results[i].success =>
                    /\ results[i].success
                    /\ Classification(returned.results[i]) = Classification(results[i])
                    /\ returned.results[i].new = results[i].new


(***************************************************************************)
(* The reconciliation of lines 890-952, entered directly                   *)
(***************************************************************************)
sCommaA == <<",", " ", "A">>
sWuCommaA == <<"W", "u", ",", " ", "A">>

\* enriched records in the form of each source, and empty ones, with values
\* that are whole, empty or null
ReconciledRecords ==
    {PyDict("title" :> t @@ "authors" :> PyList(<<PyDict("name" :> PyStr(n))>>) @@ "year" :> y) :
        t \in {PyStr(sT), PyStr(<<>>)}, n \in {sAWu, sWuCommaA, sCommaA, <<>>},
        y \in {PyInt(2020), PyNone}}
    \cup {PyDict("title" :> t @@ "authors" :> PyList(<<PyStr(n)>>) @@ "published" :> p) :
        t \in {PyStr(sT), PyStr(<<>>)}, n \in {sAWu, sWuCommaA, sCommaA, <<>>},
        p \in {PyStr(s2020 \o <<"-","0","1">>), PyStr(<<>>), PyNone}}
    \cup {PyDict("title" :> t
                 @@ "author" :> PyList(<<PyDict("family" :> PyStr(f) @@ "given" :> PyStr(g))>>)
                 @@ "published-print" :> d) :
        t \in {PyList(<<PyStr(sT)>>), PyList(<<>>)}, f \in {sWu, <<>>}, g \in {<<"A">>, <<>>},
        d \in {DateParts(2020), NoDateParts}}

EmbeddedMetadatas ==
    {"/Author" :> PyStr(a) @@ "/Title" :> PyStr(t) @@ "/CreationDate" :> PyStr(d) :
        a \in {sAWu, sCommaA, <<>>}, t \in {sT, <<>>}, d \in {<<"D",":">> \o s2020, <<>>}}

FinalFieldsCalls ==
    {[method |-> "final_fields", enriched_data |-> e, metadata |-> EmptyDict] :
        e \in ReconciledRecords}
    \cup {[method |-> "final_fields", enriched_data |-> EmptyRecord, metadata |-> m] :
        m \in EmbeddedMetadatas}
FinalFieldsInit == DirectCallInit(FinalFieldsCalls)

\* lines 890-949 for a PDF without identifiers on its pages: the three
\* fields and the flag of line 948, or the fact that an exception was raised
Reconciled(r) ==
    IF r.raised THEN r
    ELSE [raised |-> FALSE, author |-> r.author, year |-> r.year, title |-> r.title,
          needs_attention |-> AnyUnknown(r)]
Call_final_fields ==
    /\ given.method = "final_fields"
    /\ Return(Reconciled(ResolveFields(given.enriched_data, given.metadata, EmptyDict)))

FinalFieldsSpec == FinalFieldsInit /\ [][Call_final_fields]_vars

\* the value of the year in the record is null
NullYear ==
    LET e == given.enriched_data.v
    IN  \/ "year" \in DOMAIN e /\ e["year"] = PyNone
        \/ "published" \in DOMAIN e /\ e["published"] = PyNone

\* the name of the first author has nothing before its comma
NothingBeforeComma ==
    LET e == given.enriched_data.v
    IN  \/ "authors" \in DOMAIN e /\ e["authors"].v[1] \in {PyStr(sCommaA),
                                                           PyDict("name" :> PyStr(sCommaA))}
        \/ "/Author" \in DOMAIN given.metadata /\ given.metadata["/Author"] = PyStr(sCommaA)

\* C24: after the reconciliation each of author, year and title is a
\* non-empty value of a source or its sentinel; an empty or null value of a
\* source gives the sentinel, and the file is then flagged needs-attention.
C24_NonEmptyOrSentinel ==
    (Called("final_fields") /\ ~returned.v.raised) =>
        /\ returned.v.author # <<>> /\ returned.v.year # <<>> /\ returned.v.title # <<>>
        /\ NullYear => (returned.v.year = UnknownYear /\ returned.v.needs_attention)
        /\ NothingBeforeComma =>
               (returned.v.author = UnknownAuthor /\ returned.v.needs_attention)

\* the author is ", A" and the year is null: the author is empty, the year
\* is the text "None", and the file is not flagged
C24_Witness ==
    /\ Called("final_fields")
    /\ given.enriched_data = PyDict("title" :> PyStr(sT)
                                    @@ "authors" :> PyList(<<PyDict("name" :> PyStr(sCommaA))>>)
                                    @@ "year" :> PyNone)
    /\ returned.v = [raised |-> FALSE, author |-> <<>>, year |-> NoneStr,
                     title |-> improved_title_extraction(sT), needs_attention |-> FALSE]

\* the title is never empty; and an empty string or an empty list of a
\* source gives the sentinel of the field and the flag
C24_EmptyGivesSentinel ==
    (Called("final_fields") /\ ~returned.v.raised) =>
        LET e == given.enriched_data.v
        IN  /\ returned.v.title # <<>>
            /\ returned.v.year # <<>>
            /\ ("title" \in DOMAIN e /\ e["title"] \in {PyStr(<<>>), PyList(<<>>)}) =>
                   (returned.v.title = UnknownTitle /\ returned.v.needs_attention)
            /\ ("published" \in DOMAIN e /\ e["published"] = PyStr(<<>>)) =>
                   (returned.v.year = UnknownYear /\ returned.v.needs_attention)


(***************************************************************************)
(* The records of the cache                                                *)
(***************************************************************************)
\* C25: a record stored in the API cache is never modified afterwards: every
\* step of a run leaves every entry the cache has as it is.
C25_CacheEntriesNeverChange ==
    [][\A k \in DOMAIN api_cache :
          k \in DOMAIN api_cache' /\ api_cache'[k] = api_cache[k]]_vars

\* the second file has the DOI of the first: CrossRef is answered from the
\* cache, with a record that holds the authors Semantic Scholar gave
C25_Witness ==
    /\ idx = 1
    /\ last_call.key.src = "crossref" /\ ~last_call.net
    /\ IsDict(last_call.v) /\ "authors" \in DOMAIN last_call.v.v
    /\ "published-print" \in DOMAIN last_call.v.v

\* the entries of the cache change in no step but the merge of a follow-up
\* into the record CrossRef or arXiv returned
C25_OnlyTheMergeChangesEntries ==
    [][(\E k \in DOMAIN api_cache : k \notin DOMAIN api_cache' \/ api_cache'[k] # api_cache[k])
          => /\ pc = "followup" /\ pc' = "resolve"
             /\ alias # NoKey /\ alias.src \in {"crossref", "arxiv"}
             /\ \A k \in DOMAIN api_cache :
                   k \in DOMAIN api_cache' /\ (k # alias => api_cache'[k] = api_cache[k])]_vars


(***************************************************************************)
(* Moves and renames over the files that exist                             *)
(***************************************************************************)
\* the files that are somewhere in the input directory or the review folder
FilesOf(files) == {files[p] : p \in DOMAIN files}

\* C26: no move or rename has as destination a path that exists and holds
\* another file: in every step every path that stays holds the file it held,
\* and every file that was in the input directory or the review folder is
\* still in one of them.
C26_NoExistingFileOverwritten ==
    [][/\ \A p \in DOMAIN fs : p \in DOMAIN fs' => fs'[p] = fs[p]
       /\ FilesOf(fs') = FilesOf(fs)]_vars

\* the file was renamed in place where its new name was taken by another
\* file, as the name numbered (1)
C26_Witness ==
    /\ HasReturned /\ ~config.DRY_RUN
    /\ ret.success /\ ~ret.needs_attention
    /\ Path("dir", new_filename) \in DOMAIN fs
    /\ fs[Path("dir", new_filename)] # CurrentFile
    /\ Path("dir", Numbered(new_filename, 1)) \in DOMAIN fs
    /\ fs[Path("dir", Numbered(new_filename, 1))] = CurrentFile
    /\ FilesOf(fs) = FilesOf(fs0)

\* the file was moved to the review folder under its created name, where
\* that name was taken by another file
C26_MovedBesideTheOther ==
    /\ HasReturned /\ ~config.DRY_RUN
    /\ ret.success /\ ret.needs_attention
    /\ Path("review", new_filename) \in DOMAIN fs
    /\ fs[Path("review", new_filename)] # CurrentFile
    /\ fs[Path("review", Numbered(new_filename, 1))] = CurrentFile

\* no two paths hold one file, and no file is gone
C26_EveryFileKept ==
    /\ FilesOf(fs) = FilesOf(fs0)
    /\ \A p, q \in DOMAIN fs : fs[p] = fs[q] => p = q

=============================================================================
